---- MODULE Spec2Model ----
(***************************************************************************)
(* Model of the SFTP adaptor (packages/sftp/src/Adaptor.js): the module    *)
(* level session (connect / disconnect / execute) and the chunked Excel    *)
(* extraction (processExcelChunk).                                         *)
(***************************************************************************)
EXTENDS Integers, Sequences, FiniteSets, TLC

(* ------------------------------------------------------------------ *)
(* Bounds                                                               *)
(* ------------------------------------------------------------------ *)
MaxClients == 2
MaxOps == 2
MaxRows == 4
MaxChunkSize == 3
MaxChunkIndex == 4
MaxScanRows == 3
MaxCallRows == 2
MaxCallIndex == 1
MaxCallSize == 2
MaxSessions == 1
MaxNodes == 3
MaxLevels == 3
MaxUpserts == 2
MaxRuns == 2
MaxManualSteps == 2
MaxForeignWrites == 1

(* ------------------------------------------------------------------ *)
(* Values                                                               *)
(* ------------------------------------------------------------------ *)
\* `let sftp = null` / `sftp = undefined`: the module holds no client.
NoClient == 0

\* Host strings are sequences of characters; the absent (undefined) host and
\* the empty string are both falsy and are both the empty sequence.
SftpScheme == <<"s", "f", "t", "p", ":", "/", "/">>
FtpScheme == <<"f", "t", "p", ":", "/", "/">>

HostInputs ==
  { <<>>,
    <<"h">>,
    SftpScheme,
    SftpScheme \o <<"h">>,
    FtpScheme \o <<"h">>,
    SftpScheme \o FtpScheme \o <<"h">>,
    <<"x">> \o SftpScheme \o <<"h">> }

\* Job states handed to the operations: the configuration and the two keys
\* execute() defaults ("absent" = key not present in the object).
JobStates ==
  { [configuration |-> [host |-> h], data |-> "absent", references |-> "absent"] :
      h \in HostInputs }
  \cup { [configuration |-> [host |-> <<"h">>], data |-> "d1", references |-> "r1"] }

NoState == [configuration |-> [host |-> <<>>], data |-> "none", references |-> "none"]

\* Errors the transport's connect() can reject with.
TransportErrors == {"ENOTFOUND", "ECONNREFUSED", "ETIMEDOUT", "authentication"}

NoError == [msg |-> "none", originalError |-> "none"]

VARIABLES
  sftp,      \* the module variable `sftp`: NoClient or the id of a client
  clients,   \* the transport clients created so far, by id
  nClients,  \* number of `new Client()` calls so far
  outcome,   \* the most recent completion of a connect / disconnect call
  callLog,   \* transport calls made by the most recent invocation, in order
  ex,        \* the execute() pipeline
  file,      \* the rows of the remote spreadsheet, in physical order
  chunk,     \* the closure of the running processExcelChunk call and its promise
  stream,    \* the row stream opened over the temporary file
  temp,      \* the temporary file of the running call
  job,       \* the caller fetching chunk 0, 1, 2, ... and concatenating them
  call,      \* the running list / get / getCSV / getExcelMetadata / getExcelChunk operation
  scan,      \* the closure of the running processExcelMetadata call and its promise
  hier,      \* the running upsertOrganisationUnitHierarchy call
  target,    \* the remote system upsert talks to and the records it holds
  ups,       \* the running upsert calls, by caller
  xl,        \* the running extractAll (getXLSX) call
  ws,        \* the executeWithSftp runs and the module variable `sftpClient`
  cp         \* the running processExcelChunkToDHIS2 call

svars == <<sftp, clients, nClients, outcome, callLog, ex>>
cvars == <<file, chunk, stream, temp, job>>
xvars == <<call, scan, hier, target, ups, xl, ws, cp>>
vars == <<sftp, clients, nClients, outcome, callLog, ex, file, chunk, stream, temp, job,
          call, scan, hier, target, ups, xl, ws, cp>>

ClientIds == 1..MaxClients

\* A client nobody has constructed yet.
NewClient == [st |-> "unborn", ended |-> FALSE, arg |-> NoState]

\* `sftp.sftp` is truthy once the client's connect() has succeeded.
HasSftp(cl, c) == cl[c].st = "ready"

(* ------------------------------------------------------------------ *)
(* connect                                                              *)
(* ------------------------------------------------------------------ *)
StartsWith(s, p) == Len(s) >= Len(p) /\ SubSeq(s, 1, Len(p)) = p

\* cleanedConfig.host.replace(/^(sftp|ftp):\/\//, '')
StripScheme(h) ==
  IF StartsWith(h, SftpScheme) THEN SubSeq(h, Len(SftpScheme) + 1, Len(h))
  ELSE IF StartsWith(h, FtpScheme) THEN SubSeq(h, Len(FtpScheme) + 1, Len(h))
  ELSE h

\* cleanedConfig after the scheme has been removed from a non-empty host
CleanedHost(state) ==
  IF state.configuration.host # <<>>
  THEN StripScheme(state.configuration.host)
  ELSE state.configuration.host

\* variant: the host is validated before the scheme is removed
HostMissingRaw(state) == state.configuration.host = <<>>

\* `if (!cleanedConfig.host)`
HostMissing(state) == CleanedHost(state) = <<>>

\* `if (sftp && sftp.sftp)`: the previous client is closed first
ShouldClosePrevious(sf, cl) == sf # NoClient /\ HasSftp(cl, sf)

\* variant: an error thrown by end() on the previous client escapes connect
ConnectSyncEndEscapes(sf, cl, n, state, endThrows) ==
  LET closePrev == ShouldClosePrevious(sf, cl)
      cl1 == IF closePrev THEN [cl EXCEPT ![sf].ended = TRUE] ELSE cl
      log1 == IF closePrev THEN <<[call |-> "end", client |-> sf]>> ELSE <<>>
      c == n + 1
      log2 == log1 \o <<[call |-> "new", client |-> c]>>
  IN IF closePrev /\ endThrows
     THEN [sftp |-> sf, clients |-> cl1, n |-> n, log |-> log1, threw |-> TRUE,
           err |-> [msg |-> "end failed", originalError |-> "none"],
           warned |-> FALSE]
     ELSE IF HostMissing(state)
     THEN [sftp |-> c,
           clients |-> [cl1 EXCEPT ![c] = [st |-> "created", ended |-> FALSE, arg |-> NoState]],
           n |-> c, log |-> log2, threw |-> TRUE,
           err |-> [msg |-> "host is required", originalError |-> "none"],
           warned |-> FALSE]
     ELSE [sftp |-> c,
           clients |-> [cl1 EXCEPT ![c] = [st |-> "connecting", ended |-> FALSE, arg |-> state]],
           n |-> c,
           log |-> log2 \o <<[call |-> "connect", client |-> c]>>,
           threw |-> FALSE, err |-> NoError, warned |-> FALSE]

\* The synchronous part of connect(state): close the previous client, create
\* the new one, validate the host and start the transport's connect().
\* endThrows: whether sftp.end() throws.
ConnectSync(sf, cl, n, state, endThrows) ==
  LET closePrev == ShouldClosePrevious(sf, cl)
      cl1 == IF closePrev THEN [cl EXCEPT ![sf].ended = TRUE] ELSE cl
      log1 == IF closePrev THEN <<[call |-> "end", client |-> sf]>> ELSE <<>>
      c == n + 1
      log2 == log1 \o <<[call |-> "new", client |-> c]>>
  IN IF HostMissing(state)
     THEN [sftp |-> c,
           clients |-> [cl1 EXCEPT ![c] = [st |-> "created", ended |-> FALSE, arg |-> NoState]],
           n |-> c,
           log |-> log2,
           threw |-> TRUE,
           err |-> [msg |-> "host is required", originalError |-> "none"],
           warned |-> closePrev /\ endThrows]
     ELSE [sftp |-> c,
           clients |-> [cl1 EXCEPT ![c] = [st |-> "connecting", ended |-> FALSE, arg |-> state]],
           n |-> c,
           log |-> log2 \o <<[call |-> "connect", client |-> c]>>,
           threw |-> FALSE,
           err |-> NoError,
           warned |-> closePrev /\ endThrows]

\* `.catch(error => ... throw enhancedError)`
EnhancedConnectError(e) == [msg |-> "SFTP connection failed", originalError |-> e]

\* variant: connect resolves to the state carrying the cleaned configuration
ConnectResultCleaned(state) ==
  [state EXCEPT !.configuration.host = CleanedHost(state)]

\* `.then(() => ... return state)`
ConnectResult(state) == state

(* ------------------------------------------------------------------ *)
(* disconnect                                                           *)
(* ------------------------------------------------------------------ *)
\* variant: an error thrown by end() escapes disconnect
DisconnectSyncRethrow(sf, cl, state, endThrows) ==
  IF sf = NoClient
  THEN [sftp |-> sf, clients |-> cl, log |-> <<>>, threw |-> FALSE,
        ret |-> state, warned |-> FALSE]
  ELSE [sftp |-> NoClient,
        clients |-> [cl EXCEPT ![sf].ended = TRUE],
        log |-> <<[call |-> "end", client |-> sf]>>,
        threw |-> endThrows,
        ret |-> state,
        warned |-> FALSE]

\* disconnect(state); endThrows: whether sftp.end() throws.
DisconnectSync(sf, cl, state, endThrows) ==
  IF sf = NoClient
  THEN [sftp |-> sf, clients |-> cl, log |-> <<>>, threw |-> FALSE,
        ret |-> state, warned |-> FALSE]
  ELSE [sftp |-> NoClient,
        clients |-> [cl EXCEPT ![sf].ended = TRUE],
        log |-> <<[call |-> "end", client |-> sf]>>,
        threw |-> FALSE,
        ret |-> state,
        warned |-> endThrows]

(* ------------------------------------------------------------------ *)
(* Direct calls of connect and disconnect                               *)
(* ------------------------------------------------------------------ *)
\* No processExcelChunk call has been made yet.
ChunkIdle == [phase |-> "idle", chunkIndex |-> 0, indexNaN |-> FALSE,
              chunkSize |-> 1, currentRow |-> 0,
              chunkData |-> <<>>, finished |-> FALSE, status |-> "none",
              settledBy |-> "none", actualRows |-> 0, rowsAtSettle |-> <<>>,
              processedAtSettle |-> 0, taken |-> FALSE]
StreamNone == [open |-> FALSE, delivered |-> 0, destroyed |-> FALSE, ended |-> FALSE,
               errored |-> FALSE, closed |-> FALSE]
TempNone == [created |-> FALSE, exists |-> FALSE, unlinkCalls |-> 0, unlinkFailed |-> FALSE]

\* `let sftpClient = null`: no executeWithSftp run has started yet.
WsRunIdle == [pc |-> "idle", config |-> [present |-> FALSE, host |-> <<>>],
              nOps |-> 0, idx |-> 0, opened |-> 0, created |-> NoClient,
              reused |-> FALSE, err |-> NoError, status |-> "none",
              thrown |-> NoError, heldAtSettle |-> NoClient]
WsIdle == [sftpClient |-> NoClient, build |-> "unknown",
           clients |-> [c \in 1..MaxRuns |-> [st |-> "unborn", ended |-> FALSE]],
           n |-> 0,
           runs |-> [r \in 1..MaxRuns |-> WsRunIdle]]

\* No processExcelChunkToDHIS2 call has been made yet.
NoChunkResult == [chunkIndex |-> 0, chunkNumber |-> 0, rowsProcessed |-> 0,
                  dataValuesUploaded |-> 0, uploadSuccess |-> FALSE,
                  skipped |-> FALSE, reason |-> "none", error |-> "none"]
CpIdle == [pc |-> "idle", chunkIndex |-> 0, chunkSize |-> 1, rows |-> 0,
           dataValues |-> 0, requests |-> 0, response |-> "none",
           failure |-> "none", status |-> "none", result |-> NoChunkResult]

ExIdle == [pc |-> "idle", nOps |-> 0, idx |-> 0, cur |-> NoState, orig |-> NoState,
           err |-> NoError, log |-> <<>>, status |-> "none", result |-> NoState,
           thrown |-> NoError, manual |-> FALSE]

(* Values a caller may pass as filePath, chunkIndex or chunkSize: a value
   carries its `typeof` (t) and, by type, its number (n) or its text (s). *)
JsUndefined == [t |-> "undefined", n |-> 0, s |-> ""]
JsNumber(k) == [t |-> "number", n |-> k, s |-> ""]
JsString(x) == [t |-> "string", n |-> 0, s |-> x]
\* NaN: `typeof NaN` is 'number'
JsNaN == [t |-> "number", n |-> 0, s |-> "NaN"]
IsNaN(v) == v.t = "number" /\ v.s = "NaN"

\* what `!v` negates: undefined, 0, NaN and '' are falsy
Truthy(v) ==
  CASE v.t = "undefined" -> FALSE
    [] v.t = "number" -> ~IsNaN(v) /\ v.n # 0
    [] v.t = "string" -> v.s # ""

NoCallError == [kind |-> "none", param |-> "none", msgPath |-> JsUndefined,
                filePath |-> JsUndefined, dirPath |-> JsUndefined,
                originalError |-> "none", operation |-> "none",
                code |-> "none", parsingOptions |-> <<>>]

CallIdle == [op |-> "none", phase |-> "idle", status |-> "none",
             filePath |-> JsUndefined, chunkIndex |-> JsUndefined,
             chunkSize |-> JsUndefined, err |-> NoCallError,
             fetched |-> FALSE, fetchError |-> "none", rows |-> 0,
             sftpAtCall |-> NoClient, readyAtCall |-> FALSE,
             parsingOptions |-> {}, dataError |-> "none"]

\* const uniqueValues = { regions: new Set(), ... }: a Set keeps its members
\* in insertion order, so each collector is a sequence without repetition
EmptyUniqueValues ==
  [regions |-> <<>>, zones |-> <<>>, districts |-> <<>>, sites |-> <<>>,
   hsectors |-> <<>>, quarters |-> <<>>, reportingPeriods |-> <<>>,
   indicators |-> <<>>]

NoMetadata == [totalRows |-> 0, chunkSize |-> 0, totalChunks |-> 0, chunks |-> <<>>,
               uniqueValues |-> EmptyUniqueValues]

ScanIdle == [phase |-> "idle", chunkSize |-> 0, totalRows |-> 0, finished |-> FALSE,
             uniqueValues |-> EmptyUniqueValues, status |-> "none",
             settledBy |-> "none", result |-> NoMetadata, taken |-> FALSE]

\* the jobs that may call upsert at the same time
Callers == 1..MaxUpserts

\* one extractAll call: the value the streaming parser gave, the position of
\* the row stream in the file, the rows retained and the result
XlIdle == [pc |-> "idle", chunkSize |-> 1, maxRows |-> 0, parser |-> "none",
           pos |-> 0, rows |-> <<>>, seen |-> 0, chunksProcessed |-> 0,
           destroyed |-> FALSE, timer |-> "off",
           status |-> "none", err |-> "none", settledBy |-> "none",
           errorNote |-> FALSE, truncatedByTimeout |-> FALSE]

\* found = -1: no find has returned
UpsertIdle == [pc |-> "idle", tracker |-> FALSE, key |-> "none", found |-> -1,
               foundId |-> 0, write |-> "none", writeId |-> 0, writes |-> 0,
               status |-> "none", err |-> "none", uid |-> 0, log |-> <<>>]

\* the remote system upsert talks to: its records, and whether it refuses a
\* second record with the same value of the filtered attribute
NoTarget == [records |-> {}, unique |-> FALSE, initial |-> {}, foreign |-> 0]

\* const mappings = {}; const responses = [];
NoMappings == [n \in {} |-> 0]

HierIdle == [pc |-> "idle", status |-> "none", units |-> <<>>, maxLevels |-> 0,
             level |-> 0, pos |-> 0, mappings |-> NoMappings, responses |-> <<>>,
             requests |-> <<>>, inflight |-> {}, awaited |-> 0, trace |-> <<>>,
             data |-> [mappings |-> NoMappings, responses |-> <<>>],
             run |-> 1, first |-> NoMappings,
             write |-> "none", writeId |-> 0,
             answer |-> [status |-> "none", err |-> "none", uid |-> 0]]

InitLocal(f, cs) ==
  /\ sftp = NoClient
  /\ clients = [c \in ClientIds |-> NewClient]
  /\ nClients = 0
  /\ outcome = [op |-> "none", status |-> "none", value |-> NoState, err |-> NoError,
                arg |-> NoState, prev |-> NoClient, warned |-> FALSE, cause |-> "none"]
  /\ callLog = <<>>
  /\ ex = ExIdle
  /\ file = f
  /\ chunk = ChunkIdle
  /\ stream = StreamNone
  /\ temp = TempNone
  /\ job = [next |-> 0, chunkSize |-> cs, acc |-> <<>>, normal |-> TRUE, pc |-> "run"]
  /\ call = CallIdle
  /\ scan = ScanIdle
  /\ hier = HierIdle
  /\ ups = [c \in Callers |-> UpsertIdle]
  /\ xl = XlIdle
  /\ ws = WsIdle
  /\ cp = CpIdle

InitWith(f, cs) == InitLocal(f, cs) /\ target = NoTarget

Init == InitWith(<<>>, 1)

Connect(state, endThrows) ==
  /\ nClients < MaxClients
  /\ LET r == ConnectSync(sftp, clients, nClients, state, endThrows)
     IN /\ sftp' = r.sftp
        /\ clients' = r.clients
        /\ nClients' = r.n
        /\ callLog' = r.log
        /\ outcome' = [op |-> "connect",
                       status |-> IF r.threw THEN "threw" ELSE "pending",
                       value |-> NoState, err |-> r.err, arg |-> state,
                       prev |-> sftp, warned |-> r.warned, cause |-> "none"]
  /\ UNCHANGED <<ex, file, chunk, stream, temp, job>>
  /\ UNCHANGED xvars

ConnectResolve(c) ==
  /\ clients[c].st = "connecting"
  /\ clients' = [clients EXCEPT ![c].st = "ready", ![c].arg = NoState]
  /\ outcome' = [op |-> "connect", status |-> "resolved",
                 value |-> ConnectResult(clients[c].arg), err |-> NoError,
                 arg |-> clients[c].arg, prev |-> c, warned |-> FALSE, cause |-> "none"]
  /\ UNCHANGED <<sftp, nClients, callLog, ex, file, chunk, stream, temp, job>>
  /\ UNCHANGED xvars

ConnectReject(c, e) ==
  /\ clients[c].st = "connecting"
  /\ clients' = [clients EXCEPT ![c].st = "failed", ![c].arg = NoState]
  /\ outcome' = [op |-> "connect", status |-> "rejected", value |-> NoState,
                 err |-> EnhancedConnectError(e),
                 arg |-> clients[c].arg, prev |-> c, warned |-> FALSE, cause |-> e]
  /\ UNCHANGED <<sftp, nClients, callLog, ex, file, chunk, stream, temp, job>>
  /\ UNCHANGED xvars

Disconnect(state, endThrows) ==
  /\ LET r == DisconnectSync(sftp, clients, state, endThrows)
     IN /\ sftp' = r.sftp
        /\ clients' = r.clients
        /\ callLog' = r.log
        /\ outcome' = [op |-> "disconnect",
                       status |-> IF r.threw THEN "threw" ELSE "returned",
                       value |-> r.ret, err |-> NoError, arg |-> state,
                       prev |-> sftp, warned |-> r.warned, cause |-> "none"]
  /\ UNCHANGED <<nClients, ex, file, chunk, stream, temp, job>>
  /\ UNCHANGED xvars

Next ==
  \/ \E s \in JobStates, t \in BOOLEAN : Connect(s, t)
  \/ \E c \in ClientIds : ConnectResolve(c)
  \/ \E c \in ClientIds, e \in TransportErrors : ConnectReject(c, e)
  \/ \E s \in JobStates, t \in BOOLEAN : Disconnect(s, t)

Spec == Init /\ [][Next]_vars

(* ------------------------------------------------------------------ *)
(* Properties of the session                                            *)
(* ------------------------------------------------------------------ *)
\* A client is live while it is connecting or connected and end() has not
\* been called on it.
Live(c) == clients[c].st \in {"connecting", "ready"} /\ ~clients[c].ended

EndCall(c) == [call |-> "end", client |-> c]
NewCall(c) == [call |-> "new", client |-> c]
ConnectCall(c) == [call |-> "connect", client |-> c]

\* C5: disconnect never throws.  With no client held it makes no transport
\* call; with a client it calls end() on it exactly once, swallows an error
\* of end(), and in every case the module holds no client afterwards.
C5_DisconnectNeverThrows ==
  outcome.op = "disconnect" =>
    /\ outcome.status = "returned"
    /\ sftp = NoClient
    /\ outcome.prev = NoClient => callLog = <<>>
    /\ outcome.prev # NoClient =>
         /\ callLog = <<EndCall(outcome.prev)>>
         /\ clients[outcome.prev].ended

\* disconnect has run on a held client whose end() threw
C5_Witness ==
  /\ outcome.op = "disconnect"
  /\ outcome.prev # NoClient
  /\ outcome.warned

\* C6: a connect issued while a session is open calls end() on the existing
\* client before the new client is created and connected, and an error of
\* that end() does not make connect fail.
C6_ConnectClosesPrevious ==
  ( /\ outcome.op = "connect"
    /\ outcome.status \in {"pending", "threw"}
    /\ outcome.prev # NoClient
    /\ clients[outcome.prev].st = "ready" ) =>
    /\ Len(callLog) >= 2
    /\ callLog[1] = EndCall(outcome.prev)
    /\ callLog[2] = NewCall(sftp)
    /\ sftp # outcome.prev
    /\ clients[outcome.prev].ended
    /\ outcome.status = "pending" => callLog = <<EndCall(outcome.prev), NewCall(sftp), ConnectCall(sftp)>>
    /\ outcome.status = "threw" => outcome.err.msg = "host is required"

\* connect is pending on a new client after end() of the open one threw
C6_Witness ==
  /\ outcome.op = "connect"
  /\ outcome.status = "pending"
  /\ outcome.prev # NoClient
  /\ clients[outcome.prev].st = "ready"
  /\ outcome.warned

\* C37: a connect that throws because the host is missing leaves the session
\* as it was: the open client is neither ended nor replaced, and the module
\* still holds a connected client for the extraction calls.
C37_FailedConnectKeepsSession ==
  ( /\ outcome.op = "connect"
    /\ outcome.status = "threw"
    /\ outcome.prev # NoClient
    /\ clients[outcome.prev].st = "ready" ) =>
    /\ sftp = outcome.prev
    /\ ~clients[outcome.prev].ended
    /\ \A i \in 1..Len(callLog) : callLog[i].call \notin {"end", "new"}
    /\ sftp # NoClient /\ HasSftp(clients, sftp)

\* C7: at most one transport client created by the module is live.
C7_AtMostOneLiveClient ==
  Cardinality({c \in ClientIds : Live(c)}) <= 1

\* Hosts that are empty once an sftp:// or ftp:// prefix has been removed.
NoHostAfterStrip(h) == h \in {<<>>, SftpScheme, FtpScheme}

\* C8: connect throws when the configuration has no host after the scheme
\* prefix is removed, and then the transport's connect is never attempted;
\* a rejection of the transport surfaces as one error kind that carries the
\* original error.
C8_ConnectErrors ==
  /\ ( outcome.op = "connect" /\ outcome.status \in {"pending", "threw"} ) =>
       /\ outcome.status = "threw" <=> NoHostAfterStrip(outcome.arg.configuration.host)
       /\ outcome.status = "threw" =>
            /\ outcome.err.msg = "host is required"
            /\ \A i \in 1..Len(callLog) : callLog[i].call # "connect"
            /\ clients[sftp].st = "created"
  /\ ( outcome.op = "connect" /\ outcome.status = "rejected" ) =>
       /\ outcome.err.msg = "SFTP connection failed"
       /\ outcome.err.originalError = outcome.cause
       /\ outcome.cause \in TransportErrors

\* connect has thrown for a host that consists of the scheme prefix only
C8_Witness ==
  /\ outcome.op = "connect"
  /\ outcome.status = "threw"
  /\ outcome.arg.configuration.host = SftpScheme

\* C9: connect resolves to, and disconnect returns, the state it was given.
C9_StateUnchanged ==
  /\ ( outcome.op = "connect" /\ outcome.status = "resolved" ) =>
       outcome.value = outcome.arg
  /\ outcome.op = "disconnect" => outcome.value = outcome.arg

\* connect has resolved for a state whose host carries a scheme prefix
C9_Witness ==
  /\ outcome.op = "connect"
  /\ outcome.status = "resolved"
  /\ outcome.arg.configuration.host = SftpScheme \o <<"h">>

(* ------------------------------------------------------------------ *)
(* execute(...operations)                                               *)
(* ------------------------------------------------------------------ *)
\* const initialState = { references: [], data: null }
InitialState == [data |-> "null", references |-> "empty"]

\* { ...initialState, ...state }
MergeInitial(state) ==
  [configuration |-> state.configuration,
   data |-> IF state.data = "absent" THEN InitialState.data ELSE state.data,
   references |-> IF state.references = "absent" THEN InitialState.references
                  ELSE state.references]

\* variant: the handler rethrows without the emergency disconnect
ExecuteCatchNoCleanup(sf, cl, orig, e, endThrows) ==
  [sftp |-> sf, clients |-> cl, log |-> <<>>, thrown |-> e]

\* The .catch() handler of execute: emergency disconnect with the caller's
\* state, forced cleanup should that throw, then `throw e`.
ExecuteCatch(sf, cl, orig, e, endThrows) ==
  LET d == DisconnectSync(sf, cl, orig, endThrows)
  IN IF d.threw
     THEN [sftp |-> NoClient,
           clients |-> IF d.sftp # NoClient
                       THEN [d.clients EXCEPT ![d.sftp].ended = TRUE]
                       ELSE d.clients,
           log |-> d.log \o (IF d.sftp # NoClient
                             THEN <<[call |-> "end", client |-> d.sftp]>> ELSE <<>>),
           thrown |-> e]
     ELSE [sftp |-> d.sftp, clients |-> d.clients, log |-> d.log, thrown |-> e]

\* execute(op_1, ..., op_n)(state): the chain is built and started
ExecuteCall(state, n) ==
  /\ ex.pc = "idle"
  /\ nClients < MaxClients
  /\ ex' = [ExIdle EXCEPT !.pc = "connect", !.nOps = n, !.idx = 1,
                          !.cur = MergeInitial(state), !.orig = state]
  /\ UNCHANGED <<sftp, clients, nClients, outcome, callLog, file, chunk, stream, temp, job>>
  /\ UNCHANGED xvars

\* first link of the chain: connect(state)
ExecConnect(endThrows) ==
  /\ ex.pc = "connect"
  /\ LET r == ConnectSync(sftp, clients, nClients, ex.cur, endThrows)
     IN /\ sftp' = r.sftp
        /\ clients' = r.clients
        /\ nClients' = r.n
        /\ callLog' = r.log
        /\ ex' = [ex EXCEPT !.pc = IF r.threw THEN "catch" ELSE "connecting",
                            !.err = r.err,
                            !.log = Append(@, [step |-> "connect", i |-> 0])]
  /\ UNCHANGED <<outcome, file, chunk, stream, temp, job>>
  /\ UNCHANGED xvars

ExecConnectResolve ==
  /\ ex.pc = "connecting"
  /\ clients[sftp].st = "connecting"
  /\ clients' = [clients EXCEPT ![sftp].st = "ready", ![sftp].arg = NoState]
  /\ ex' = [ex EXCEPT !.pc = "ops", !.cur = ConnectResult(clients[sftp].arg)]
  /\ UNCHANGED <<sftp, nClients, outcome, callLog, file, chunk, stream, temp, job>>
  /\ UNCHANGED xvars

ExecConnectReject(e) ==
  /\ ex.pc = "connecting"
  /\ clients[sftp].st = "connecting"
  /\ clients' = [clients EXCEPT ![sftp].st = "failed", ![sftp].arg = NoState]
  /\ ex' = [ex EXCEPT !.pc = "catch", !.err = EnhancedConnectError(e)]
  /\ UNCHANGED <<sftp, nClients, outcome, callLog, file, chunk, stream, temp, job>>
  /\ UNCHANGED xvars

\* the next caller-supplied operation runs; it returns its state or throws
ExecOp(fails) ==
  /\ ex.pc = "ops"
  /\ ex.idx <= ex.nOps
  /\ ex' = [ex EXCEPT !.log = Append(@, [step |-> "op", i |-> ex.idx]),
                      !.idx = IF fails THEN @ ELSE @ + 1,
                      !.pc = IF fails THEN "catch" ELSE "ops",
                      !.err = IF fails
                              THEN [msg |-> "operation failed", originalError |-> "op"]
                              ELSE @]
  /\ UNCHANGED <<sftp, clients, nClients, outcome, callLog, file, chunk, stream, temp, job>>
  /\ UNCHANGED xvars

\* last link of the chain: disconnect(state)
ExecDisconnect(endThrows) ==
  /\ ex.pc = "ops"
  /\ ex.idx > ex.nOps
  /\ LET r == DisconnectSync(sftp, clients, ex.cur, endThrows)
     IN /\ sftp' = r.sftp
        /\ clients' = r.clients
        /\ callLog' = r.log
        /\ ex' = [ex EXCEPT !.pc = IF r.threw THEN "catch" ELSE "done",
                            !.status = IF r.threw THEN @ ELSE "resolved",
                            !.result = r.ret,
                            !.log = Append(@, [step |-> "disconnect", i |-> 0])]
  /\ UNCHANGED <<nClients, outcome, file, chunk, stream, temp, job>>
  /\ UNCHANGED xvars

ExecCatch(endThrows) ==
  /\ ex.pc = "catch"
  /\ LET r == ExecuteCatch(sftp, clients, ex.orig, ex.err, endThrows)
     IN /\ sftp' = r.sftp
        /\ clients' = r.clients
        /\ callLog' = r.log
        /\ ex' = [ex EXCEPT !.pc = "done", !.status = "rejected", !.thrown = r.thrown]
  /\ UNCHANGED <<nClients, outcome, file, chunk, stream, temp, job>>
  /\ UNCHANGED xvars

\* The .catch() handler of executeManual: end() is called on the held client
\* only when `sftp.sftp && sftp.sftp.state === 'ready'`; whatever end() does,
\* `finally { sftp = undefined }`; then `throw e`. `sftp.sftp` is the object
\* the transport library stored on the client when it connected; whether it
\* has a `state` property that reads 'ready' is the library's (stateReady).
ExecuteManualCatch(sf, cl, e, endThrows, stateReady) ==
  IF sf = NoClient
  THEN [sftp |-> sf, clients |-> cl, log |-> <<>>, thrown |-> e]
  ELSE LET isConnected == HasSftp(cl, sf) /\ stateReady
       IN [sftp |-> NoClient,
           clients |-> IF isConnected THEN [cl EXCEPT ![sf].ended = TRUE] ELSE cl,
           log |-> IF isConnected THEN <<[call |-> "end", client |-> sf]>> ELSE <<>>,
           thrown |-> e]

\* executeManual(...operations)(state): the chain holds the caller's
\* operations only, connect and disconnect among them where the job put them
ExecuteManualCall(state) ==
  /\ ex.pc = "idle"
  /\ ex' = [ExIdle EXCEPT !.pc = "manual", !.manual = TRUE, !.idx = 1,
                          !.cur = MergeInitial(state), !.orig = state]
  /\ UNCHANGED <<sftp, clients, nClients, outcome, callLog, file, chunk, stream, temp, job>>
  /\ UNCHANGED xvars

\* the next operation of the chain is connect, or (awaited = FALSE) an
\* operation that calls connect and returns without its promise
ManualConnect(endThrows, awaited) ==
  /\ ex.pc = "manual"
  /\ ex.idx <= MaxManualSteps
  /\ nClients < MaxClients
  /\ LET r == ConnectSync(sftp, clients, nClients, ex.cur, endThrows)
     IN /\ sftp' = r.sftp
        /\ clients' = r.clients
        /\ nClients' = r.n
        /\ callLog' = r.log
        /\ ex' = [ex EXCEPT !.pc = IF r.threw THEN "manualCatch"
                                   ELSE IF awaited THEN "manualConnecting"
                                   ELSE "manual",
                            !.idx = IF r.threw \/ awaited THEN @ ELSE @ + 1,
                            !.err = r.err]
  /\ UNCHANGED <<outcome, file, chunk, stream, temp, job>>
  /\ UNCHANGED xvars

ManualConnectResolve ==
  /\ ex.pc = "manualConnecting"
  /\ clients[sftp].st = "connecting"
  /\ clients' = [clients EXCEPT ![sftp].st = "ready", ![sftp].arg = NoState]
  /\ ex' = [ex EXCEPT !.pc = "manual", !.idx = @ + 1,
                      !.cur = ConnectResult(clients[sftp].arg)]
  /\ UNCHANGED <<sftp, nClients, outcome, callLog, file, chunk, stream, temp, job>>
  /\ UNCHANGED xvars

ManualConnectReject(e) ==
  /\ ex.pc = "manualConnecting"
  /\ clients[sftp].st = "connecting"
  /\ clients' = [clients EXCEPT ![sftp].st = "failed", ![sftp].arg = NoState]
  /\ ex' = [ex EXCEPT !.pc = "manualCatch", !.err = EnhancedConnectError(e)]
  /\ UNCHANGED <<sftp, nClients, outcome, callLog, file, chunk, stream, temp, job>>
  /\ UNCHANGED xvars

\* a connect() nobody waits for completes: the client becomes connected
DetachedConnectResolve(c) ==
  /\ clients[c].st = "connecting"
  /\ ~(ex.pc \in {"connecting", "manualConnecting"} /\ c = sftp)
  /\ clients' = [clients EXCEPT ![c].st = "ready", ![c].arg = NoState]
  /\ UNCHANGED <<sftp, nClients, outcome, callLog, ex, file, chunk, stream, temp, job>>
  /\ UNCHANGED xvars

\* the next operation of the chain runs; it returns its state or throws
ManualOp(fails) ==
  /\ ex.pc = "manual"
  /\ ex.idx <= MaxManualSteps
  /\ ex' = [ex EXCEPT !.idx = IF fails THEN @ ELSE @ + 1,
                      !.pc = IF fails THEN "manualCatch" ELSE "manual",
                      !.err = IF fails
                              THEN [msg |-> "operation failed", originalError |-> "op"]
                              ELSE @]
  /\ UNCHANGED <<sftp, clients, nClients, outcome, callLog, file, chunk, stream, temp, job>>
  /\ UNCHANGED xvars

\* the next operation of the chain is disconnect
ManualDisconnect(endThrows) ==
  /\ ex.pc = "manual"
  /\ ex.idx <= MaxManualSteps
  /\ LET r == DisconnectSync(sftp, clients, ex.cur, endThrows)
     IN /\ sftp' = r.sftp
        /\ clients' = r.clients
        /\ callLog' = r.log
        /\ ex' = [ex EXCEPT !.pc = IF r.threw THEN "manualCatch" ELSE "manual",
                            !.idx = IF r.threw THEN @ ELSE @ + 1,
                            !.cur = r.ret]
  /\ UNCHANGED <<nClients, outcome, file, chunk, stream, temp, job>>
  /\ UNCHANGED xvars

\* the chain has no operation left: executeManual resolves with the state
\* of the last one, and the module keeps whatever client it holds
ManualFinish ==
  /\ ex.pc = "manual"
  /\ ex' = [ex EXCEPT !.pc = "done", !.status = "resolved", !.result = ex.cur]
  /\ UNCHANGED <<sftp, clients, nClients, outcome, callLog, file, chunk, stream, temp, job>>
  /\ UNCHANGED xvars

ManualCatch(endThrows, stateReady) ==
  /\ ex.pc = "manualCatch"
  /\ LET r == ExecuteManualCatch(sftp, clients, ex.err, endThrows, stateReady)
     IN /\ sftp' = r.sftp
        /\ clients' = r.clients
        /\ callLog' = r.log
        /\ ex' = [ex EXCEPT !.pc = "done", !.status = "rejected", !.thrown = r.thrown]
  /\ UNCHANGED <<nClients, outcome, file, chunk, stream, temp, job>>
  /\ UNCHANGED xvars

\* the caller has received the settled promise; execute may be called again
ExecReturn ==
  /\ ex.pc = "done"
  /\ ex' = ExIdle
  /\ UNCHANGED <<sftp, clients, nClients, outcome, callLog, file, chunk, stream, temp, job>>
  /\ UNCHANGED xvars

NextExecute ==
  \/ \E s \in JobStates, n \in 0..MaxOps : ExecuteCall(s, n)
  \/ \E t \in BOOLEAN : ExecConnect(t)
  \/ ExecConnectResolve
  \/ \E e \in TransportErrors : ExecConnectReject(e)
  \/ \E f \in BOOLEAN : ExecOp(f)
  \/ \E t \in BOOLEAN : ExecDisconnect(t)
  \/ \E t \in BOOLEAN : ExecCatch(t)
  \/ \E s \in JobStates : ExecuteManualCall(s)
  \/ \E t \in BOOLEAN, a \in BOOLEAN : ManualConnect(t, a)
  \/ ManualConnectResolve
  \/ \E e \in TransportErrors : ManualConnectReject(e)
  \/ \E c \in ClientIds : DetachedConnectResolve(c)
  \/ \E f \in BOOLEAN : ManualOp(f)
  \/ \E t \in BOOLEAN : ManualDisconnect(t)
  \/ ManualFinish
  \/ \E t \in BOOLEAN, rdy \in BOOLEAN : ManualCatch(t, rdy)
  \/ ExecReturn

SpecExecute == Init /\ [][NextExecute]_vars

(* ------------------------------------------------------------------ *)
(* Properties of execute                                                *)
(* ------------------------------------------------------------------ *)
\* connect, then the n operations in order, then disconnect
ExpectedSteps(n) ==
  <<[step |-> "connect", i |-> 0]>>
  \o [k \in 1..n |-> [step |-> "op", i |-> k]]
  \o <<[step |-> "disconnect", i |-> 0]>>

IsPrefix(s, t) == Len(s) <= Len(t) /\ SubSeq(t, 1, Len(s)) = s

\* C10: execute runs connect, the operations in order and disconnect last;
\* when connect or an operation fails the client is still ended, the error
\* of the failing step is the one rethrown, and once execute has settled the
\* module holds no client.
C10_ExecuteOrderAndCleanup ==
  ~ex.manual =>
    /\ IsPrefix(ex.log, ExpectedSteps(ex.nOps))
    /\ ex.status = "resolved" => ex.log = ExpectedSteps(ex.nOps)
    /\ ex.pc = "done" =>
         /\ sftp = NoClient
         /\ nClients >= 1
         /\ clients[nClients].ended
         /\ callLog = <<EndCall(nClients)>>
    /\ ex.status = "rejected" =>
         /\ ex.err # NoError
         /\ ex.thrown = ex.err
         /\ Len(ex.log) < Len(ExpectedSteps(ex.nOps))

\* execute has rejected because its second operation failed
C10_Witness ==
  /\ ~ex.manual
  /\ ex.pc = "done"
  /\ ex.status = "rejected"
  /\ ex.err.msg = "operation failed"
  /\ ex.idx = 2

(* ------------------------------------------------------------------ *)
(* processExcelChunk                                                    *)
(* ------------------------------------------------------------------ *)
\* Row k of the file as the stream emits it: an object that may carry a
\* `formatted` property (0 = no such property).  Objects are named by numbers.
Row(k, hasFormatted) == [id |-> 100 + k, formatted |-> IF hasFormatted THEN k ELSE 0]

Files ==
  UNION { { [k \in 1..n |-> Row(k, fl[k])] : fl \in [1..n -> BOOLEAN] } : n \in 0..MaxRows }

\* `row.formatted || row`
RowValue(row) == IF row.formatted # 0 THEN row.formatted ELSE row.id

\* variant: rows are counted from one when the window is placed
StartRowOneBased(c) == c.chunkIndex * c.chunkSize + 1

\* const startRow = chunkIndex * chunkSize
StartRow(c) == c.chunkIndex * c.chunkSize
\* const endRow = startRow + chunkSize - 1
EndRow(c) == StartRow(c) + c.chunkSize - 1

\* variant: the window test excludes the row at startRow
InWindowSkipsFirst(c) == c.currentRow > StartRow(c) /\ c.currentRow <= EndRow(c)

\* `if (currentRow >= startRow && currentRow <= endRow)`: with a chunk index
\* of NaN both bounds are NaN and every comparison is false
InWindow(c) ==
  ~c.indexNaN /\ c.currentRow >= StartRow(c) /\ c.currentRow <= EndRow(c)

NoEffect(c) == [c |-> c, destroy |-> FALSE, cleanup |-> FALSE, settle |-> "none"]

\* variant: the data handler never stops the stream early
DataHandlerNoEarlyStop(c, row) ==
  IF c.finished THEN NoEffect(c)
  ELSE LET data == IF InWindow(c) THEN Append(c.chunkData, RowValue(row)) ELSE c.chunkData
       IN [c |-> [c EXCEPT !.chunkData = data, !.currentRow = @ + 1],
           destroy |-> FALSE, cleanup |-> FALSE, settle |-> "none"]

\* stream.on('data', row => ...)
DataHandler(c, row) ==
  IF c.finished THEN NoEffect(c)
  ELSE LET data == IF InWindow(c) THEN Append(c.chunkData, RowValue(row)) ELSE c.chunkData
           full == Len(data) >= c.chunkSize
       IN [c |-> [c EXCEPT !.chunkData = data, !.currentRow = @ + 1, !.finished = full],
           destroy |-> full, cleanup |-> full,
           settle |-> IF full THEN "resolved" ELSE "none"]


\* stream.on('end', () => ...)
EndHandler(c) ==
  IF c.finished THEN NoEffect(c)
  ELSE [c |-> [c EXCEPT !.finished = TRUE], destroy |-> FALSE, cleanup |-> TRUE,
        settle |-> "resolved"]

\* variant: the error handler does not look at `finished`
ErrorHandlerUnguarded(c) ==
  [c |-> [c EXCEPT !.finished = TRUE], destroy |-> FALSE, cleanup |-> TRUE,
   settle |-> "rejected"]

\* stream.on('error', error => ...)
ErrorHandler(c) ==
  IF c.finished THEN NoEffect(c)
  ELSE [c |-> [c EXCEPT !.finished = TRUE], destroy |-> FALSE, cleanup |-> TRUE,
        settle |-> "rejected"]

\* stream.on('close', () => ...)
CloseHandler(c) ==
  IF c.finished THEN NoEffect(c)
  ELSE [c |-> [c EXCEPT !.finished = TRUE], destroy |-> FALSE, cleanup |-> TRUE,
        settle |-> "resolved"]

\* cleanupTempFile(): unlinkSync inside try/catch; unlinkFails: unlinkSync throws
CleanupTempFile(t, unlinkFails) ==
  IF t.created
  THEN IF unlinkFails
       THEN [t EXCEPT !.unlinkCalls = @ + 1, !.unlinkFailed = TRUE]
       ELSE [t EXCEPT !.unlinkCalls = @ + 1, !.exists = FALSE]
  ELSE t

\* resolve(createChunkResult(chunkData, ...)) / reject(...): a promise settles
\* once; createChunkResult reads chunkData.length and keeps the array itself
Settle(c, kind, by) ==
  IF kind # "none" /\ c.status = "pending"
  THEN [c EXCEPT !.status = kind, !.settledBy = by,
                 !.actualRows = Len(c.chunkData),
                 !.rowsAtSettle = c.chunkData,
                 !.processedAtSettle = c.currentRow]
  ELSE c

\* The effects of one handler run on the call, the stream and the file.
ApplyHandler(h, by, unlinkFails) ==
  /\ chunk' = Settle(h.c, h.settle, by)
  /\ temp' = IF h.cleanup THEN CleanupTempFile(temp, unlinkFails) ELSE temp

\* processExcelChunk(buffer, filePath, chunkIndex, chunkSize) up to the
\* suspension at `await getXlsxStream(...)`
\* processExcelChunk is entered: nothing is written before the four dynamic
\* imports have been awaited
BeginChunk(ci, nan, cs) ==
  /\ stream' = StreamNone
  /\ temp' = TempNone
  /\ chunk' = [ChunkIdle EXCEPT !.phase = "importing", !.chunkIndex = ci,
                                !.indexNaN = nan,
                                !.chunkSize = cs, !.status = "pending"]

\* what writeFileSync(tempFilePath, buffer) does: it returns, it throws
\* before the file exists, or it throws after part of the file is written
\* (EFBIG, ENOSPC)
WriteOutcomes == {"written", "failed", "partial"}

\* the file a failed writeFileSync leaves; tempFileCreated is still false
WriteFailed(write) == [TempNone EXCEPT !.exists = (write = "partial")]

\* the imports are in: writeFileSync, then the promise whose executor awaits
\* getXlsxStream
StartChunk(ci, cs, write) ==
  /\ stream' = StreamNone
  /\ IF write # "written"
     THEN /\ temp' = WriteFailed(write)
          /\ chunk' = [ChunkIdle EXCEPT !.phase = "done", !.chunkIndex = ci,
                                        !.indexNaN = chunk.indexNaN,
                                        !.chunkSize = cs,
                                        !.status = "rejected", !.settledBy = "write"]
     ELSE /\ temp' = [TempNone EXCEPT !.created = TRUE, !.exists = TRUE]
          /\ chunk' = [ChunkIdle EXCEPT !.phase = "opening", !.chunkIndex = ci,
                                        !.indexNaN = chunk.indexNaN,
                                        !.chunkSize = cs,
                                        !.status = "pending"]

\* the caller of the chunk-by-chunk job asks for its next chunk
ProcessExcelChunk ==
  /\ job.pc = "run"
  /\ job.next <= MaxChunkIndex
  /\ chunk.phase = "idle" \/ chunk.taken
  /\ BeginChunk(job.next, FALSE, job.chunkSize)
  /\ UNCHANGED <<file, job>>
  /\ UNCHANGED svars
  /\ UNCHANGED xvars

\* the four `await import(...)` resolved
ChunkImported(write) ==
  /\ chunk.phase = "importing"
  /\ StartChunk(chunk.chunkIndex, chunk.chunkSize, write)
  /\ UNCHANGED <<file, job>>
  /\ UNCHANGED svars
  /\ UNCHANGED xvars

\* an import failed: throw new Error(`Module import failed: ...`)
ChunkImportFails ==
  /\ chunk.phase = "importing"
  /\ chunk' = [chunk EXCEPT !.phase = "done", !.status = "rejected",
                            !.settledBy = "import"]
  /\ UNCHANGED <<file, stream, temp, job>>
  /\ UNCHANGED svars
  /\ UNCHANGED xvars

\* getXlsxStream resolved with a stream: the four handlers are registered
StreamOpened ==
  /\ chunk.phase = "opening"
  /\ chunk' = [chunk EXCEPT !.phase = "streaming"]
  /\ stream' = [StreamNone EXCEPT !.open = TRUE]
  /\ UNCHANGED <<file, temp, job>>
  /\ UNCHANGED xvars
  /\ UNCHANGED svars
  /\ UNCHANGED xvars

\* getXlsxStream failed (or gave no stream): catch, cleanupTempFile, reject
StreamOpenFails(unlinkFails) ==
  /\ chunk.phase = "opening"
  /\ chunk' = Settle([chunk EXCEPT !.phase = "done"], "rejected", "open")
  /\ temp' = CleanupTempFile(temp, unlinkFails)
  /\ UNCHANGED <<file, stream, job>>
  /\ UNCHANGED svars
  /\ UNCHANGED xvars

\* the stream emits its next row
OnData(unlinkFails) ==
  /\ chunk.phase = "streaming"
  /\ ~stream.closed /\ ~stream.ended
  /\ stream.delivered < Len(file)
  /\ LET h == DataHandler(chunk, file[stream.delivered + 1])
     IN /\ ApplyHandler(h, "data", unlinkFails)
        /\ stream' = [stream EXCEPT !.delivered = @ + 1,
                                    !.destroyed = @ \/ h.destroy]
  /\ UNCHANGED <<file, job>>
  /\ UNCHANGED svars
  /\ UNCHANGED xvars

\* the stream has emitted every row and emits end
OnEnd(unlinkFails) ==
  /\ chunk.phase = "streaming"
  /\ ~stream.closed /\ ~stream.ended
  /\ stream.delivered = Len(file)
  /\ ApplyHandler(EndHandler(chunk), "end", unlinkFails)
  /\ stream' = [stream EXCEPT !.ended = TRUE]
  /\ UNCHANGED <<file, job>>
  /\ UNCHANGED svars
  /\ UNCHANGED xvars

\* the stream emits error
OnError(unlinkFails) ==
  /\ chunk.phase = "streaming"
  /\ ~stream.closed /\ ~stream.errored
  /\ ApplyHandler(ErrorHandler(chunk), "error", unlinkFails)
  /\ stream' = [stream EXCEPT !.errored = TRUE]
  /\ UNCHANGED <<file, job>>
  /\ UNCHANGED svars
  /\ UNCHANGED xvars

\* the stream emits close; nothing is emitted after it
OnClose(unlinkFails) ==
  /\ chunk.phase = "streaming"
  /\ ~stream.closed
  /\ ApplyHandler(CloseHandler(chunk), "close", unlinkFails)
  /\ stream' = [stream EXCEPT !.closed = TRUE]
  /\ UNCHANGED <<file, job>>
  /\ UNCHANGED svars
  /\ UNCHANGED xvars

\* The caller receives the settled promise: a resolved chunk is appended to
\* what it has so far and the next chunk index is requested; a rejection
\* ends the job.
JobTake ==
  /\ chunk.status \in {"resolved", "rejected"}
  /\ ~chunk.taken
  /\ chunk' = [chunk EXCEPT !.taken = TRUE]
  /\ job' = IF chunk.status = "resolved"
            THEN [job EXCEPT !.next = @ + 1,
                             !.acc = @ \o chunk.chunkData,
                             !.normal = @ /\ chunk.settledBy \in {"data", "end"}]
            ELSE [job EXCEPT !.pc = "failed"]
  /\ UNCHANGED <<file, stream, temp>>
  /\ UNCHANGED svars
  /\ UNCHANGED xvars

InitChunk == \E f \in Files, cs \in 1..MaxChunkSize : InitWith(f, cs)

NextChunk ==
  \/ ProcessExcelChunk
  \/ \E w \in WriteOutcomes : ChunkImported(w)
  \/ ChunkImportFails
  \/ StreamOpened
  \/ \E u \in BOOLEAN : StreamOpenFails(u)
  \/ \E u \in BOOLEAN : OnData(u)
  \/ \E u \in BOOLEAN : OnEnd(u)
  \/ \E u \in BOOLEAN : OnError(u)
  \/ \E u \in BOOLEAN : OnClose(u)
  \/ JobTake

SpecChunk == InitChunk /\ [][NextChunk]_vars

(* ------------------------------------------------------------------ *)
(* extractAll (getXLSX), as the specification describes it              *)
(* ------------------------------------------------------------------ *)
Min(a, b) == IF a < b THEN a ELSE b
Max(a, b) == IF a > b THEN a ELSE b

\* ceil(total / size)
NumChunks(total, size) == (total + size - 1) \div size

RECURSIVE ConcatAll(_)
ConcatAll(ss) == IF ss = <<>> THEN <<>> ELSE Head(ss) \o ConcatAll(Tail(ss))

\* Every row is retained, batched in groups of chunkSize; the returned
\* collection is the concatenation of the batches.
ExtractAllBatches(f, size) ==
  [b \in 1..NumChunks(Len(f), size) |->
     [k \in 1..(Min(b * size, Len(f)) - (b - 1) * size) |->
        RowValue(f[(b - 1) * size + k])]]

ExtractAll(f, size) == ConcatAll(ExtractAllBatches(f, size))

(* ------------------------------------------------------------------ *)
(* Properties of processExcelChunk                                      *)
(* ------------------------------------------------------------------ *)
\* The file's rows as the stream yields them, in physical order.
FileRows == [k \in 1..Len(file) |-> IF file[k].formatted # 0 THEN file[k].formatted
                                    ELSE file[k].id]

\* min(chunkSize, max(0, totalRows - chunkIndex*chunkSize))
ExpectedCount(total, ci, cs) == Min(cs, Max(0, total - ci * cs))

\* C1: when the stream delivers the file's rows and ends (or the window is
\* filled before that), the call resolves with exactly
\* min(chunkSize, max(0, totalRows - chunkIndex*chunkSize)) rows; a window
\* past the end of the file resolves with no rows.
C1_ChunkRowCount ==
  chunk.settledBy \in {"data", "end"} =>
    /\ chunk.status = "resolved"
    /\ Len(chunk.chunkData) =
         ExpectedCount(Len(file), chunk.chunkIndex, chunk.chunkSize)
    /\ chunk.actualRows = Len(chunk.chunkData)

\* a final, partly filled chunk has been returned at end of file
C1_Witness ==
  /\ chunk.settledBy = "end"
  /\ chunk.chunkIndex >= 1
  /\ Len(chunk.chunkData) >= 1
  /\ Len(chunk.chunkData) < chunk.chunkSize

\* C2: the chunks 0, 1, 2, ... fetched one after the other and concatenated
\* are the file's rows in physical order, nothing lost, repeated or moved;
\* after the last chunk this is the sequence extractAll returns.
C2_ChunksConcatenate ==
  job.normal =>
    /\ job.acc = SubSeq(FileRows, 1, Min(job.next * job.chunkSize, Len(file)))
    /\ job.next >= NumChunks(Len(file), job.chunkSize) =>
         /\ job.acc = FileRows
         /\ job.acc = ExtractAll(file, job.chunkSize)

\* the last of several chunks, a partly filled one, has been appended
C2_Witness ==
  /\ job.normal
  /\ job.next = NumChunks(Len(file), job.chunkSize)
  /\ job.next >= 2
  /\ Len(file) % job.chunkSize # 0
  /\ chunk.taken

\* C3: the call resolves as soon as chunkSize rows are collected, having
\* processed exactly (chunkIndex+1)*chunkSize row events and destroyed the
\* stream; it waits for end only when the file is shorter than that; rows
\* delivered afterwards change neither the rows nor the row counter.
C3_EarlyStop ==
  /\ chunk.settledBy = "data" =>
       /\ chunk.status = "resolved"
       /\ chunk.processedAtSettle = (chunk.chunkIndex + 1) * chunk.chunkSize
       /\ Len(chunk.rowsAtSettle) = chunk.chunkSize
       /\ stream.destroyed
  /\ chunk.settledBy = "end" =>
       Len(file) < (chunk.chunkIndex + 1) * chunk.chunkSize
  /\ chunk.finished =>
       /\ chunk.chunkData = chunk.rowsAtSettle
       /\ chunk.currentRow = chunk.processedAtSettle

\* a row has been delivered after the window was filled and the stream destroyed
C3_Witness ==
  /\ chunk.settledBy = "data"
  /\ chunk.chunkIndex >= 1
  /\ stream.delivered > chunk.processedAtSettle

\* C4: when an extractChunk call has resolved or rejected, unlink has been
\* called on the temporary file it wrote and, unless unlink itself failed,
\* the file is gone; a failing unlink leaves the outcome as it would be.
C4_TempFileDeleted ==
  chunk.status \in {"resolved", "rejected"} =>
    /\ temp.created => temp.unlinkCalls = 1
    /\ (temp.created /\ ~temp.unlinkFailed) => ~temp.exists
    /\ ~temp.created => (~temp.exists /\ chunk.settledBy \in {"write", "import"})
    /\ chunk.settledBy \in {"data", "end", "close"} => chunk.status = "resolved"
    /\ chunk.settledBy \in {"error", "open", "write", "import"} => chunk.status = "rejected"

(* ------------------------------------------------------------------ *)
(* processExcelMetadata                                                 *)
(* ------------------------------------------------------------------ *)
\* The columns the scan reads from a row object; "" is an empty or missing cell.
NoCells == [Region |-> "", Zone |-> "", District |-> "", Site |-> "", hsector |-> "",
            Quarter |-> "", ReportingPeriod |-> "", Indicator_name |-> ""]

CellsA == [Region |-> "R1", Zone |-> "Z1", District |-> "D1", Site |-> "S1",
           hsector |-> "H1", Quarter |-> "Q1", ReportingPeriod |-> "P1",
           Indicator_name |-> "I1"]
CellsB == [Region |-> "R1", Zone |-> "Z2", District |-> "", Site |-> "S2",
           hsector |-> "", Quarter |-> "Q1", ReportingPeriod |-> "P2",
           Indicator_name |-> ""]
CellsC == [Region |-> "R2", Zone |-> "Z1", District |-> "D1", Site |-> "",
           hsector |-> "H2", Quarter |-> "Q2", ReportingPeriod |-> "P1",
           Indicator_name |-> "I2"]

\* A row object is one of three kinds: columns carried by `row.formatted`,
\* columns carried by the row itself, or both with different contents.
RowKinds ==
  { [fmt |-> TRUE, fcells |-> CellsA, cells |-> NoCells],
    [fmt |-> FALSE, fcells |-> NoCells, cells |-> CellsB],
    [fmt |-> TRUE, fcells |-> CellsC, cells |-> CellsA] }

ScanRow(k, kind) == [id |-> 100 + k, formatted |-> IF kind.fmt THEN k ELSE 0,
                     cells |-> kind.cells, fcells |-> kind.fcells]

ScanFiles ==
  UNION { { [k \in 1..n |-> ScanRow(k, ks[k])] : ks \in [1..n -> RowKinds] } :
          n \in 0..MaxScanRows }

\* const rowData = row.formatted || row
RowData(row) == IF row.formatted # 0 THEN row.fcells ELSE row.cells

\* variant: the collector is a plain list
AddValueNoDedup(set, v) == IF v = "" THEN set ELSE Append(set, v)
\* if (v) set.add(v)
AddValue(set, v) ==
  IF v = "" THEN set
  ELSE IF \E i \in 1..Len(set) : set[i] = v THEN set
  ELSE Append(set, v)

Collect(u, d) ==
  [regions |-> AddValue(u.regions, d.Region),
   zones |-> AddValue(u.zones, d.Zone),
   districts |-> AddValue(u.districts, d.District),
   sites |-> AddValue(u.sites, d.Site),
   hsectors |-> AddValue(u.hsectors, d.hsector),
   quarters |-> AddValue(u.quarters, d.Quarter),
   reportingPeriods |-> AddValue(u.reportingPeriods, d.ReportingPeriod),
   indicators |-> AddValue(u.indicators, d.Indicator_name)]

\* variant: the last entry's endRow is not clamped to the last row of the file
CreateMetadataResultUnclamped(totalRows, chunkSize, uniqueValues) ==
  LET totalChunks == NumChunks(totalRows, chunkSize)
  IN [totalRows |-> totalRows,
      chunkSize |-> chunkSize,
      totalChunks |-> totalChunks,
      chunks |-> [i \in 1..totalChunks |->
                    LET startRow == (i - 1) * chunkSize
                        endRow == startRow + chunkSize - 1
                    IN [chunkIndex |-> i - 1, chunkNumber |-> i,
                        startRow |-> startRow, endRow |-> endRow,
                        rowCount |-> endRow - startRow + 1]],
      uniqueValues |-> uniqueValues]

\* createMetadataResult(totalRows, chunkSize, filePath, uniqueValues)
CreateMetadataResult(totalRows, chunkSize, uniqueValues) ==
  LET totalChunks == NumChunks(totalRows, chunkSize)
  IN [totalRows |-> totalRows,
      chunkSize |-> chunkSize,
      totalChunks |-> totalChunks,
      chunks |-> [i \in 1..totalChunks |->
                    LET startRow == (i - 1) * chunkSize
                        endRow == Min(startRow + chunkSize - 1, totalRows - 1)
                    IN [chunkIndex |-> i - 1, chunkNumber |-> i,
                        startRow |-> startRow, endRow |-> endRow,
                        rowCount |-> endRow - startRow + 1]],
      uniqueValues |-> uniqueValues]

\* the property of the result that holds the child -> parent map: the result
\* object is built without one, so reading it gives no entry for any child
ParentMap(result) == [child \in {} |-> ""]

\* variant: counting stops once one chunk's worth of rows has been seen
ScanDataHandlerStopsEarly(sc, row) ==
  IF sc.finished \/ sc.totalRows >= sc.chunkSize THEN sc
  ELSE [sc EXCEPT !.totalRows = @ + 1,
                  !.uniqueValues = Collect(@, RowData(row))]
\* stream.on('data')
ScanDataHandler(sc, row) ==
  IF sc.finished THEN sc
  ELSE [sc EXCEPT !.totalRows = @ + 1,
                  !.uniqueValues = Collect(@, RowData(row))]

\* resolve(createMetadataResult(...)) / reject(...): a promise settles once
ScanSettle(sc, kind, by) ==
  IF kind # "none" /\ sc.status = "pending"
  THEN [sc EXCEPT !.status = kind, !.settledBy = by,
                  !.result = IF kind = "resolved"
                             THEN CreateMetadataResult(sc.totalRows, sc.chunkSize,
                                                       sc.uniqueValues)
                             ELSE @]
  ELSE sc

\* stream.on('end'), stream.on('error'), stream.on('close')
ScanEndHandler(sc) ==
  IF ~sc.finished THEN ScanSettle([sc EXCEPT !.finished = TRUE], "resolved", "end")
  ELSE sc

ScanErrorHandler(sc) ==
  IF ~sc.finished THEN ScanSettle([sc EXCEPT !.finished = TRUE], "rejected", "error")
  ELSE sc

ScanCloseHandler(sc) ==
  IF ~sc.finished THEN ScanSettle([sc EXCEPT !.finished = TRUE], "resolved", "close")
  ELSE sc

\* processExcelMetadata(buffer, filePath, chunkSize) up to the suspension at
\* `await getXlsxStream(...)` inside the promise executor, followed by the
\* `finally` block of the function, which runs as soon as the promise object
\* has been returned
\* processExcelMetadata is entered: nothing is written before the four
\* dynamic imports have been awaited
BeginScan(cs) ==
  /\ stream' = StreamNone
  /\ temp' = TempNone
  /\ scan' = [ScanIdle EXCEPT !.phase = "importing", !.chunkSize = cs,
                              !.status = "pending"]

\* the imports are in: writeFileSync, the promise whose executor awaits
\* getXlsxStream, and the `finally` that unlinks the file
StartScan(cs, write, unlinkFails) ==
  /\ stream' = StreamNone
  /\ IF write # "written"
     THEN /\ temp' = WriteFailed(write)
          /\ scan' = [ScanIdle EXCEPT !.phase = "done", !.chunkSize = cs,
                                      !.status = "rejected", !.settledBy = "write"]
     ELSE /\ temp' = CleanupTempFile([TempNone EXCEPT !.created = TRUE,
                                                     !.exists = TRUE], unlinkFails)
          /\ scan' = [ScanIdle EXCEPT !.phase = "opening", !.chunkSize = cs,
                                      !.status = "pending"]

ProcessExcelMetadata ==
  /\ scan.phase = "idle"
  /\ BeginScan(job.chunkSize)
  /\ UNCHANGED <<file, chunk, job, call, hier, target, ups, xl, ws, cp>>
  /\ UNCHANGED svars

\* the four `await import(...)` resolved
ScanImported(write, unlinkFails) ==
  /\ scan.phase = "importing"
  /\ StartScan(scan.chunkSize, write, unlinkFails)
  /\ UNCHANGED <<file, chunk, job, call, hier, target, ups, xl, ws, cp>>
  /\ UNCHANGED svars

\* an import failed: throw new Error(`Module import failed: ...`)
ScanImportFails ==
  /\ scan.phase = "importing"
  /\ scan' = [scan EXCEPT !.phase = "done", !.status = "rejected",
                          !.settledBy = "import"]
  /\ UNCHANGED <<file, chunk, stream, temp, job, call, hier, target, ups, xl, ws, cp>>
  /\ UNCHANGED svars

\* getXlsxStream resolved with a stream: the four handlers are registered
ScanStreamOpened ==
  /\ scan.phase = "opening"
  /\ scan' = [scan EXCEPT !.phase = "streaming"]
  /\ stream' = [StreamNone EXCEPT !.open = TRUE]
  /\ UNCHANGED <<file, chunk, temp, job, call, hier, target, ups, xl, ws, cp>>
  /\ UNCHANGED svars

\* getXlsxStream failed: catch, reject(error)
ScanStreamOpenFails ==
  /\ scan.phase = "opening"
  /\ scan' = ScanSettle([scan EXCEPT !.phase = "done"], "rejected", "open")
  /\ UNCHANGED <<file, chunk, stream, temp, job, call, hier, target, ups, xl, ws, cp>>
  /\ UNCHANGED svars

ScanOnData ==
  /\ scan.phase = "streaming"
  /\ ~stream.closed /\ ~stream.ended
  /\ stream.delivered < Len(file)
  /\ scan' = ScanDataHandler(scan, file[stream.delivered + 1])
  /\ stream' = [stream EXCEPT !.delivered = @ + 1]
  /\ UNCHANGED <<file, chunk, temp, job, call, hier, target, ups, xl, ws, cp>>
  /\ UNCHANGED svars

ScanOnEnd ==
  /\ scan.phase = "streaming"
  /\ ~stream.closed /\ ~stream.ended
  /\ stream.delivered = Len(file)
  /\ scan' = ScanEndHandler(scan)
  /\ stream' = [stream EXCEPT !.ended = TRUE]
  /\ UNCHANGED <<file, chunk, temp, job, call, hier, target, ups, xl, ws, cp>>
  /\ UNCHANGED svars

ScanOnError ==
  /\ scan.phase = "streaming"
  /\ ~stream.closed /\ ~stream.errored
  /\ scan' = ScanErrorHandler(scan)
  /\ stream' = [stream EXCEPT !.errored = TRUE]
  /\ UNCHANGED <<file, chunk, temp, job, call, hier, target, ups, xl, ws, cp>>
  /\ UNCHANGED svars

ScanOnClose ==
  /\ scan.phase = "streaming"
  /\ ~stream.closed
  /\ scan' = ScanCloseHandler(scan)
  /\ stream' = [stream EXCEPT !.closed = TRUE]
  /\ UNCHANGED <<file, chunk, temp, job, call, hier, target, ups, xl, ws, cp>>
  /\ UNCHANGED svars

InitScan == \E f \in ScanFiles, cs \in 1..MaxChunkSize : InitWith(f, cs)

NextScan ==
  \/ ProcessExcelMetadata
  \/ \E w \in WriteOutcomes, u \in BOOLEAN : ScanImported(w, u)
  \/ ScanImportFails
  \/ ScanStreamOpened
  \/ ScanStreamOpenFails
  \/ ScanOnData
  \/ ScanOnEnd
  \/ ScanOnError
  \/ ScanOnClose

SpecScan == InitScan /\ [][NextScan]_vars

(* ------------------------------------------------------------------ *)
(* list, get, getCSV, getExcelMetadata, getExcelChunk, putCSV, getJSON, *)
(* getFile                                                              *)
(* ------------------------------------------------------------------ *)
PathInputs == {JsUndefined, JsString(""), JsNumber(7), JsString("/f.xlsx")}
IndexInputs == {JsUndefined, JsString("1"), JsNumber(-1), JsNaN} \cup
               {JsNumber(k) : k \in 0..MaxCallIndex}
SizeInputs == {JsUndefined, JsString("2"), JsNumber(-1), JsNumber(0), JsNaN} \cup
              {JsNumber(k) : k \in 1..MaxCallSize}
FetchErrors == {"ENOENT", "ECONNRESET"}
\* the parsing options a job passes, as the set of their keys; getCSV takes
\* {} when none is passed (parsingOptions = {})
ParsingOptionsInputs == {{}, {"delimiter"}}
\* the operations that begin with `if (!sftp || !sftp.sftp)`
GuardedOps == {"list", "get", "getCSV", "getExcelMetadata", "getExcelChunk"}
\* putCSV, getJSON and getFile call the client with no check before
UnguardedOps == {"putCSV", "getJSON", "getFile"}
Operations == GuardedOps \cup UnguardedOps

\* isObjectEmpty(parsingOptions) of ./Utils
IsObjectEmpty(o) == o = {}

\* const useParser = !isObjectEmpty(parsingOptions), in getCSV
UseParser(op, po) == op = "getCSV" /\ ~IsObjectEmpty(po)

ExcelOps == {"getExcelMetadata", "getExcelChunk"}

\* variant: only a missing client counts as not connected
NotConnectedNoClientOnly(sf, cl) == sf = NoClient
\* if (!sftp || !sftp.sftp)
NotConnected(sf, cl) == sf = NoClient \/ ~HasSftp(cl, sf)

\* if (!filePath || typeof filePath !== 'string')
FilePathInvalid(p) == ~Truthy(p) \/ p.t # "string"

\* if (typeof chunkIndex !== 'number' || chunkIndex < 0): NaN < 0 is false
ChunkIndexInvalid(ci) == ci.t # "number" \/ (~IsNaN(ci) /\ ci.n < 0)

\* if (!chunkSize || typeof chunkSize !== 'number' || chunkSize <= 0): !NaN is
\* true
ChunkSizeInvalid(cs) ==
  ~Truthy(cs) \/ cs.t # "number" \/ (~IsNaN(cs) /\ cs.n <= 0)

\* throw new Error('SFTP operation failed: not connected to server')
NotConnectedError(op) ==
  [kind |-> "notConnected", param |-> "none", msgPath |-> JsUndefined,
   filePath |-> JsUndefined, dirPath |-> JsUndefined,
   originalError |-> "none", operation |-> "none",
   code |-> "none", parsingOptions |-> <<>>]

\* throw new Error(`SFTP <op> failed: <param> must be ...`)
ValidationError(op, param) ==
  [kind |-> "validation", param |-> param, msgPath |-> JsUndefined,
   filePath |-> JsUndefined, dirPath |-> JsUndefined,
   originalError |-> "none", operation |-> "none",
   code |-> "none", parsingOptions |-> <<>>]

\* sftp.put / sftp.get evaluated while `sftp` is undefined: a TypeError
UndefinedClientError ==
  [kind |-> "TypeError", param |-> "none", msgPath |-> JsUndefined,
   filePath |-> JsUndefined, dirPath |-> JsUndefined,
   originalError |-> "none", operation |-> "none",
   code |-> "none", parsingOptions |-> <<>>]

\* the error the transport rejected with, passed on as it is
TransportError(e) ==
  [kind |-> "transport", param |-> "none", msgPath |-> JsUndefined,
   filePath |-> JsUndefined, dirPath |-> JsUndefined,
   originalError |-> "none", operation |-> "none",
   code |-> e, parsingOptions |-> <<>>]

Thrown(e) == [threw |-> TRUE, err |-> e]
Proceeds == [threw |-> FALSE, err |-> NoCallError]

\* The synchronous part of each operation, up to its transport call.
ListSync(sf, cl, dirPath) ==
  IF NotConnected(sf, cl) THEN Thrown(NotConnectedError("list"))
  ELSE IF FilePathInvalid(dirPath) THEN Thrown(ValidationError("list", "dirPath"))
  ELSE Proceeds

GetSync(sf, cl, filePath) ==
  IF NotConnected(sf, cl) THEN Thrown(NotConnectedError("get"))
  ELSE IF FilePathInvalid(filePath) THEN Thrown(ValidationError("get", "filePath"))
  ELSE Proceeds

GetCSVSync(sf, cl, filePath) ==
  IF NotConnected(sf, cl) THEN Thrown(NotConnectedError("getCSV"))
  ELSE IF FilePathInvalid(filePath) THEN Thrown(ValidationError("getCSV", "filePath"))
  ELSE Proceeds

GetExcelMetadataSync(sf, cl, filePath, chunkSize) ==
  IF NotConnected(sf, cl) THEN Thrown(NotConnectedError("getExcelMetadata"))
  ELSE IF FilePathInvalid(filePath)
       THEN Thrown(ValidationError("getExcelMetadata", "filePath"))
  ELSE IF ChunkSizeInvalid(chunkSize)
       THEN Thrown(ValidationError("getExcelMetadata", "chunkSize"))
  ELSE Proceeds

GetExcelChunkSync(sf, cl, filePath, chunkIndex, chunkSize) ==
  IF NotConnected(sf, cl) THEN Thrown(NotConnectedError("getExcelChunk"))
  ELSE IF FilePathInvalid(filePath)
       THEN Thrown(ValidationError("getExcelChunk", "filePath"))
  ELSE IF ChunkIndexInvalid(chunkIndex)
       THEN Thrown(ValidationError("getExcelChunk", "chunkIndex"))
  ELSE IF ChunkSizeInvalid(chunkSize)
       THEN Thrown(ValidationError("getExcelChunk", "chunkSize"))
  ELSE Proceeds

\* return sftp.put(localFilePath, remoteFilePath, parsingOptions): no check
\* of the connection or of the paths comes before the call
PutCSVSync(sf) == IF sf = NoClient THEN Thrown(UndefinedClientError) ELSE Proceeds

\* return sftp.get(filePath) of getJSON, unchecked
GetJSONSync(sf) == IF sf = NoClient THEN Thrown(UndefinedClientError) ELSE Proceeds

\* return sftp.get(filePath) of getFile, unchecked
GetFileSync(sf) == IF sf = NoClient THEN Thrown(UndefinedClientError) ELSE Proceeds

OperationSync(op, sf, cl, path, ci, cs) ==
  CASE op = "list" -> ListSync(sf, cl, path)
    [] op = "get" -> GetSync(sf, cl, path)
    [] op = "getCSV" -> GetCSVSync(sf, cl, path)
    [] op = "getExcelMetadata" -> GetExcelMetadataSync(sf, cl, path, cs)
    [] op = "getExcelChunk" -> GetExcelChunkSync(sf, cl, path, ci, cs)
    [] op = "putCSV" -> PutCSVSync(sf)
    [] op = "getJSON" -> GetJSONSync(sf)
    [] op = "getFile" -> GetFileSync(sf)

\* sftp.list(dirPath, filter) for list, sftp.put(...) for putCSV,
\* sftp.createReadStream(filePath, readStreamOptions) for getCSV with parsing
\* options, sftp.get(filePath) for the others
TransportCall(op, c, po) ==
  [call |-> CASE op = "list" -> "list"
              [] op = "putCSV" -> "put"
              [] UseParser(op, po) -> "createReadStream"
              [] OTHER -> "get",
   client |-> c]

\* variant: the enhanced error keeps the message only
EnhancedCallErrorBare(op, path, cause, po) ==
  [kind |-> "enhanced", param |-> "none", msgPath |-> path,
   filePath |-> JsUndefined, dirPath |-> JsUndefined,
   originalError |-> "none", operation |-> op,
   code |-> "none", parsingOptions |-> <<>>]
\* The .catch() handler: new Error(`SFTP ... failed for '${filePath}': ...`)
\* with originalError, filePath (dirPath for list) and operation attached,
\* and parsingOptions for getCSV. With parsing options getCSV's message is
\* `SFTP CSV parsing failed for ...` (kind "parsing").
EnhancedCallError(op, path, cause, po) ==
  [kind |-> IF UseParser(op, po) THEN "parsing" ELSE "enhanced",
   param |-> "none", msgPath |-> path,
   filePath |-> IF op = "list" THEN JsUndefined ELSE path,
   dirPath |-> IF op = "list" THEN path ELSE JsUndefined,
   originalError |-> cause, operation |-> op,
   code |-> "none",
   parsingOptions |-> IF op = "getCSV" THEN <<po>> ELSE <<>>]

\* what the rejected transport call of each operation turns into: the
\* enhanced error of the operations that have a .catch() that throws, the
\* transport's own error for putCSV and getJSON, which have no .catch()
RejectionError(op, path, cause, po) ==
  IF op \in {"putCSV", "getJSON"} THEN TransportError(cause)
  ELSE EnhancedCallError(op, path, cause, po)

\* variant: a failed operation gives up the module's client
SessionAfterCallForgets(sf) == NoClient
\* No operation assigns the module variable `sftp` or ends its client: the
\* session after any step of an operation is the session before it.
SessionAfterCall(sf) == sf

CallQuiet == call.phase = "idle"

\* an operation is invoked with the job's state
Operation(op, path, ci, cs, po) ==
  /\ CallQuiet
  /\ LET r == OperationSync(op, sftp, clients, path, ci, cs)
     IN /\ call' = [CallIdle EXCEPT
                      !.op = op,
                      !.phase = IF r.threw THEN "done" ELSE "fetching",
                      !.status = IF r.threw THEN "threw" ELSE "pending",
                      !.filePath = path,
                      !.chunkIndex = IF op = "getExcelChunk" THEN ci ELSE JsUndefined,
                      !.chunkSize = IF op \in {"getExcelChunk", "getExcelMetadata"}
                                    THEN cs ELSE JsUndefined,
                      !.err = r.err,
                      !.fetched = ~r.threw,
                      !.sftpAtCall = sftp,
                      !.readyAtCall = sftp # NoClient /\ clients[sftp].st = "ready"
                                      /\ ~clients[sftp].ended,
                      !.parsingOptions = IF op \in {"getCSV", "putCSV"}
                                         THEN po ELSE {}]
        /\ callLog' = IF r.threw THEN <<>> ELSE <<TransportCall(op, sftp, po)>>
  /\ sftp' = SessionAfterCall(sftp)
  /\ chunk' = ChunkIdle
  /\ scan' = ScanIdle
  /\ stream' = StreamNone
  /\ temp' = TempNone
  /\ UNCHANGED <<clients, nClients, outcome, ex, file, job, hier, target, ups, xl, ws, cp>>

\* the transport call of list, get, getCSV, putCSV, getJSON or getFile
\* resolved: the next state is returned. A client that holds no connection
\* answers no call.
FetchResolvedPlain ==
  /\ call.phase = "fetching"
  /\ call.op \in Operations \ ExcelOps
  /\ call.readyAtCall
  /\ call' = [call EXCEPT !.phase = "done", !.status = "resolved"]
  /\ sftp' = SessionAfterCall(sftp)
  /\ UNCHANGED <<clients, nClients, outcome, callLog, ex>>
  /\ UNCHANGED <<cvars, scan, hier, target, ups, xl, ws, cp>>

\* .then(buffer => processExcelChunk(buffer, filePath, chunkIndex, chunkSize))
FetchResolvedChunk ==
  /\ call.phase = "fetching"
  /\ call.op = "getExcelChunk"
  /\ call' = [call EXCEPT !.phase = "processing"]
  /\ BeginChunk(call.chunkIndex.n, IsNaN(call.chunkIndex), call.chunkSize.n)
  /\ sftp' = SessionAfterCall(sftp)
  /\ UNCHANGED <<clients, nClients, outcome, callLog, ex>>
  /\ UNCHANGED <<file, job, scan, hier, target, ups, xl, ws, cp>>

\* .then(buffer => processExcelMetadata(buffer, filePath, chunkSize))
FetchResolvedScan ==
  /\ call.phase = "fetching"
  /\ call.op = "getExcelMetadata"
  /\ call' = [call EXCEPT !.phase = "processing"]
  /\ BeginScan(call.chunkSize.n)
  /\ sftp' = SessionAfterCall(sftp)
  /\ UNCHANGED <<clients, nClients, outcome, callLog, ex>>
  /\ UNCHANGED <<file, job, chunk, hier, target, ups, xl, ws, cp>>

\* the transport call rejected: .catch() throws the enhanced error; putCSV
\* and getJSON reject with the transport's error; getFile's .catch() returns
\* {...state, data: {error: 'File download failed: ' + error.message, filePath}}
FetchRejected(e) ==
  /\ call.phase = "fetching"
  /\ call' = IF call.op = "getFile"
             THEN [call EXCEPT !.phase = "done", !.status = "resolved",
                               !.fetchError = e, !.dataError = e]
             ELSE [call EXCEPT !.phase = "done", !.status = "rejected",
                               !.fetchError = e,
                               !.err = RejectionError(call.op, call.filePath, e,
                                                      call.parsingOptions)]
  /\ sftp' = SessionAfterCall(sftp)
  /\ UNCHANGED <<clients, nClients, outcome, callLog, ex>>
  /\ UNCHANGED <<cvars, scan, hier, target, ups, xl, ws, cp>>

\* processExcelChunk settled: .then(result => ({...state, chunkData, ...}))
\* or .catch()
ChunkReturned ==
  /\ call.phase = "processing"
  /\ call.op = "getExcelChunk"
  /\ chunk.status \in {"resolved", "rejected"}
  /\ call' = IF chunk.status = "resolved"
             THEN [call EXCEPT !.phase = "done", !.status = "resolved",
                               !.rows = chunk.actualRows]
             ELSE [call EXCEPT !.phase = "done", !.status = "rejected",
                               !.err = EnhancedCallError(call.op, call.filePath,
                                                         chunk.settledBy,
                                                         call.parsingOptions)]
  /\ sftp' = SessionAfterCall(sftp)
  /\ UNCHANGED <<clients, nClients, outcome, callLog, ex>>
  /\ UNCHANGED <<cvars, scan, hier, target, ups, xl, ws, cp>>

\* processExcelMetadata settled: .then(metadata => ({...state, data: metadata}))
\* or .catch()
ScanReturned ==
  /\ call.phase = "processing"
  /\ call.op = "getExcelMetadata"
  /\ scan.status \in {"resolved", "rejected"}
  /\ call' = IF scan.status = "resolved"
             THEN [call EXCEPT !.phase = "done", !.status = "resolved",
                               !.rows = scan.result.totalRows]
             ELSE [call EXCEPT !.phase = "done", !.status = "rejected",
                               !.err = EnhancedCallError(call.op, call.filePath,
                                                         scan.settledBy,
                                                         call.parsingOptions)]
  /\ sftp' = SessionAfterCall(sftp)
  /\ UNCHANGED <<clients, nClients, outcome, callLog, ex>>
  /\ UNCHANGED <<cvars, scan, hier, target, ups, xl, ws, cp>>

\* the job has received the outcome of the operation and goes on
CallTaken ==
  /\ call.phase = "done"
  /\ call' = CallIdle
  /\ chunk' = ChunkIdle
  /\ scan' = ScanIdle
  /\ stream' = StreamNone
  /\ temp' = TempNone
  /\ UNCHANGED <<file, job, hier, target, ups, xl, ws, cp>>
  /\ UNCHANGED svars

\* the job state the operations of this specification connect with
ExtractJobStates == {s \in JobStates : s.data = "absent"
                                       /\ s.configuration.host \in {<<"h">>, <<>>}}

\* the remote files of this specification: up to MaxCallRows rows of one kind
ExtractFiles ==
  { [k \in 1..n |-> ScanRow(k, [fmt |-> TRUE, fcells |-> CellsA, cells |-> NoCells])] :
      n \in 0..MaxCallRows }

InitExtract == \E f \in ExtractFiles : InitWith(f, 1)

\* the arguments each operation takes: only getExcelChunk has a chunk index,
\* only the Excel operations a chunk size, only getCSV and putCSV parsing
\* options
IndexInputsOf(op) == IF op = "getExcelChunk" THEN IndexInputs ELSE {JsUndefined}
SizeInputsOf(op) == IF op \in ExcelOps THEN SizeInputs ELSE {JsUndefined}
ParsingOptionsInputsOf(op) ==
  IF op \in {"getCSV", "putCSV"} THEN ParsingOptionsInputs ELSE {{}}

\* The job may call connect and disconnect while the promise of an operation
\* is pending; a settled operation is taken before the job goes on.
CallUnsettled == call.phase # "done"

NextExtract ==
  \/ \E s \in ExtractJobStates, t \in BOOLEAN :
       CallUnsettled /\ nClients < MaxSessions /\ Connect(s, t)
  \/ \E c \in ClientIds : ConnectResolve(c)
  \/ \E c \in ClientIds : ConnectReject(c, "ECONNREFUSED")
  \/ \E s \in ExtractJobStates, t \in BOOLEAN : CallUnsettled /\ Disconnect(s, t)
  \/ CallQuiet /\ \E op \in Operations, p \in PathInputs :
                    \E ci \in IndexInputsOf(op), cs \in SizeInputsOf(op),
                       po \in ParsingOptionsInputsOf(op) :
                      Operation(op, p, ci, cs, po)
  \/ FetchResolvedPlain
  \/ FetchResolvedChunk
  \/ FetchResolvedScan
  \/ \E w \in WriteOutcomes : ChunkImported(w)
  \/ ChunkImportFails
  \/ \E w \in WriteOutcomes, u \in BOOLEAN : ScanImported(w, u)
  \/ ScanImportFails
  \/ \E e \in FetchErrors : FetchRejected(e)
  \/ StreamOpened
  \/ \E u \in BOOLEAN : StreamOpenFails(u)
  \/ \E u \in BOOLEAN : OnData(u)
  \/ \E u \in BOOLEAN : OnEnd(u)
  \/ \E u \in BOOLEAN : OnError(u)
  \/ \E u \in BOOLEAN : OnClose(u)
  \/ ScanStreamOpened
  \/ ScanStreamOpenFails
  \/ ScanOnData
  \/ ScanOnEnd
  \/ ScanOnError
  \/ ScanOnClose
  \/ ChunkReturned
  \/ ScanReturned
  \/ CallTaken

SpecExtract == InitExtract /\ [][NextExtract]_vars

(* ------------------------------------------------------------------ *)
(* Properties of the operations                                         *)
(* ------------------------------------------------------------------ *)
\* what the caller passed is not usable: a path that is missing, empty or not
\* a string; a chunk size that is not a positive number; a chunk index that
\* is negative or not a number
PathMalformed(p) == p.t # "string" \/ p.s = ""
SizeMalformed(cs) == cs.t # "number" \/ IsNaN(cs) \/ cs.n <= 0
IndexMalformed(ci) == ci.t # "number" \/ IsNaN(ci) \/ ci.n < 0
Malformed(c) ==
  \/ PathMalformed(c.filePath)
  \/ SizeMalformed(c.chunkSize)
  \/ c.op = "getExcelChunk" /\ IndexMalformed(c.chunkIndex)

\* the running operation has made no transport call and written no file
NothingFetched ==
  /\ ~call.fetched
  /\ callLog = <<>>
  /\ ~temp.created
  /\ chunk.phase = "idle"
  /\ scan.phase = "idle"

\* the transport call the running operation made
OwnTransportCall == TransportCall(call.op, call.sftpAtCall, call.parsingOptions)

\* the job has called connect or disconnect since the operation's transport
\* call: the last transport calls are theirs (end, new, connect, or none)
SessionCallSince ==
  callLog = <<>> \/ callLog[1].call \in {"end", "new"}

\* C11: getExcelChunk and getExcelMetadata called on a Ready session with a
\* malformed parameter throw at once (a synchronous throw, not a rejected
\* promise) with a validation error; the remote file is not fetched and no
\* temporary file is created.
C11_ValidationBeforeIO ==
  (call.phase # "idle" /\ call.op \in ExcelOps /\ call.readyAtCall /\ Malformed(call))
    => /\ call.phase = "done"
       /\ call.status = "threw"
       /\ call.err.kind = "validation"
       /\ NothingFetched

\* C12: list, get, getCSV, getExcelMetadata and getExcelChunk make a
\* transport call only when the session is Ready; called without a Ready
\* session (none yet, disconnected, still connecting, failed) each throws the
\* 'not connected' error, fetches nothing and creates no temporary file.
C12_NotConnectedGuard ==
  /\ (call.phase # "idle" /\ call.op \in GuardedOps /\ ~call.readyAtCall)
       => /\ call.phase = "done"
          /\ call.status = "threw"
          /\ call.err.kind = "notConnected"
          /\ NothingFetched
  /\ (call.phase # "idle" /\ call.op \in GuardedOps /\ call.fetched)
       => /\ call.readyAtCall
          /\ \/ callLog = <<OwnTransportCall>>
             \/ SessionCallSince

\* an operation called after a disconnect that closed a session
C12_Witness ==
  /\ call.op = "getExcelMetadata"
  /\ call.status = "threw"
  /\ call.err.kind = "notConnected"
  /\ ~PathMalformed(call.filePath)
  /\ ~SizeMalformed(call.chunkSize)
  /\ sftp = NoClient
  /\ outcome.op = "disconnect"
  /\ outcome.prev # NoClient

\* C13: when the file fetch fails inside getExcelChunk or getExcelMetadata
\* the call rejects with an error that names the path (in its message and as
\* filePath) and carries the original cause; the call has created no
\* temporary file.
C13_FetchFailure ==
  (call.op \in ExcelOps /\ call.fetchError # "none")
    => /\ call.phase = "done"
       /\ call.status = "rejected"
       /\ call.err.msgPath = call.filePath
       /\ call.err.filePath = call.filePath
       /\ call.err.originalError = call.fetchError
       /\ call.err.operation = call.op
       /\ ~temp.created
       /\ chunk.phase = "idle"
       /\ scan.phase = "idle"

\* getExcelMetadata whose download failed with "no such file"
C13_Witness ==
  /\ call.op = "getExcelMetadata"
  /\ call.fetchError = "ENOENT"
  /\ call.status = "rejected"
  /\ call.fetched

\* C14: an extraction or scan call never changes the session: from the call
\* until its outcome is taken (validation failure, fetch failure, stream
\* error, early stop or completion) the module's client is the client that
\* was Ready at the call, and it is still Ready and not ended, as long as
\* the job itself has called neither connect nor disconnect meanwhile.
C14_SessionUntouched ==
  (/\ call.phase # "idle" /\ call.op \in ExcelOps /\ call.readyAtCall
   /\ (call.fetched => callLog = <<OwnTransportCall>>))
    => /\ sftp = call.sftpAtCall
       /\ clients[sftp].st = "ready"
       /\ ~clients[sftp].ended

\* a chunk call that stopped its stream early and resolved
C14_Witness ==
  /\ call.op = "getExcelChunk"
  /\ call.phase = "done"
  /\ call.status = "resolved"
  /\ call.readyAtCall
  /\ chunk.settledBy = "data"
  /\ stream.destroyed
  /\ sftp = call.sftpAtCall

(* ------------------------------------------------------------------ *)
(* Properties of the scan                                               *)
(* ------------------------------------------------------------------ *)
\* C15: the scan never stops its stream early: it never destroys the
\* stream, it counts every row it is handed, and when the stream has
\* delivered all rows and ended, totalRows is the number of rows of the file
\* and totalChunks is ceil(totalRows / chunkSize), 0 for an empty file.
C15_ScanCountsAllRows ==
  /\ scan.phase # "idle" => ~stream.destroyed
  /\ (scan.phase = "streaming" /\ ~scan.finished) => scan.totalRows = stream.delivered
  /\ (scan.status = "resolved" /\ scan.settledBy = "end")
       => /\ scan.result.totalRows = Len(file)
          /\ scan.result.totalChunks >= 0
          /\ scan.result.totalChunks * scan.chunkSize >= Len(file)
          /\ (scan.result.totalChunks - 1) * scan.chunkSize < Len(file)
          /\ Len(file) = 0 => scan.result.totalChunks = 0

\* a three-row file scanned with chunk size 2: two chunks
C15_Witness ==
  /\ scan.status = "resolved"
  /\ scan.settledBy = "end"
  /\ Len(file) = 3
  /\ scan.chunkSize = 2
  /\ scan.result.totalRows = 3
  /\ scan.result.totalChunks = 2

\* a dimension of the result and the column it is collected from
Dimensions ==
  { <<"regions", "Region">>, <<"zones", "Zone">>, <<"districts", "District">>,
    <<"sites", "Site">>, <<"hsectors", "hsector">>, <<"quarters", "Quarter">>,
    <<"reportingPeriods", "ReportingPeriod">>, <<"indicators", "Indicator_name">> }

\* the cell of column col in each row the scan has seen
SeenColumn(col) == [k \in 1..scan.result.totalRows |-> RowData(file[k])[col]]

FirstSeenAt(column, v) ==
  CHOOSE k \in 1..Len(column) :
    column[k] = v /\ \A j \in 1..(k - 1) : column[j] # v

\* C16: for each dimension, the returned array holds every distinct non-empty
\* value seen in that dimension's column, each exactly once, ordered by the
\* row at which the value was first seen.
C16_UniqueValuesFirstSeen ==
  scan.status = "resolved"
    => \A d \in Dimensions :
         LET arr == scan.result.uniqueValues[d[1]]
             column == SeenColumn(d[2])
         IN /\ {arr[i] : i \in 1..Len(arr)} =
                 {column[k] : k \in 1..Len(column)} \ {""}
            /\ \A i, j \in 1..Len(arr) : i # j => arr[i] # arr[j]
            /\ \A i, j \in 1..Len(arr) :
                 i < j => FirstSeenAt(column, arr[i]) < FirstSeenAt(column, arr[j])

\* three rows seen, the second region appearing first and the first region
\* twice; the one district appears twice and one row has no district
C16_Witness ==
  /\ scan.status = "resolved"
  /\ scan.result.totalRows = 3
  /\ scan.result.uniqueValues.regions = <<"R2", "R1">>
  /\ scan.result.uniqueValues.districts = <<"D1">>
  /\ \E k \in 1..3 : RowData(file[k]).District = ""

Members(arr) == {arr[i] : i \in 1..Len(arr)}

\* C17: the scan returns a flat parent map: for every row seen with non-empty
\* values at two adjacent hierarchy columns the child value is mapped, and
\* every mapped zone points to a collected region, every mapped district to a
\* collected zone and every mapped site to a collected district.
C17_ParentMapBuilt ==
  scan.status = "resolved"
    => LET pm == ParentMap(scan.result)
           u == scan.result.uniqueValues
       IN \A k \in 1..scan.result.totalRows :
            LET d == RowData(file[k])
            IN /\ (d.Region # "" /\ d.Zone # "")
                    => (d.Zone \in DOMAIN pm /\ pm[d.Zone] \in Members(u.regions))
               /\ (d.Zone # "" /\ d.District # "")
                    => (d.District \in DOMAIN pm /\ pm[d.District] \in Members(u.zones))
               /\ (d.District # "" /\ d.Site # "")
                    => (d.Site \in DOMAIN pm /\ pm[d.Site] \in Members(u.districts))

\* C32: in processExcelMetadata the temporary file is deleted only after the
\* row stream has emitted end, error or close: while the stream is being
\* opened or is delivering rows, the file still exists.
C32_TempFileOutlivesStream ==
  (/\ scan.phase \in {"opening", "streaming"}
   /\ temp.created
   /\ ~(stream.ended \/ stream.errored \/ stream.closed))
    => temp.exists

(* ------------------------------------------------------------------ *)
(* upsertOrganisationUnitHierarchy                                      *)
(* ------------------------------------------------------------------ *)
\* An organisation unit of the input list; parent "" = no parent property.
OrgUnit(name, code, level, parent) ==
  [name |-> name, code |-> code, level |-> level, parent |-> parent]

OrgUnitInputs ==
  { OrgUnit("a", "c1", 1, ""),
    OrgUnit("b", "c2", 2, "a"),
    OrgUnit("c", "c3", 3, "b"),
    OrgUnit("c", "c4", 2, "g"),
    OrgUnit("b", "c5", 1, "a"),
    OrgUnit("d", "c6", 0, ""),
    OrgUnit("__proto__", "c7", 1, ""),
    OrgUnit("k", "c8", 2, "__proto__"),
    OrgUnit("x", "c9", 1, "constructor") }

OrgUnitLists ==
  UNION { {us \in [1..n -> OrgUnitInputs] : \A i, j \in 1..n : us[i] = us[j] => i = j} :
            n \in 0..MaxNodes }

\* options.maxLevels: 0 stands for an option that was not given
MaxLevelsInputs == 0..MaxLevels

\* What a settled upsert leaves behind: a response body with response.uid,
\* a body without it, a null body, or a rejection.
UpsertOutcomes == {"uid", "noUid", "nullBody", "failed"}

\* messages of the errors a failed upsert rejects with
UpsertErrors == {"Conflict", "ECONNRESET"}

\* variant: units are put at the front of their level's list
OrgUnitsByLevelReversed(units, level) ==
  LET RECURSIVE Build(_)
      Build(i) == IF i > Len(units) THEN <<>>
                  ELSE IF units[i].level = level THEN Build(i + 1) \o <<i>>
                  ELSE Build(i + 1)
  IN Build(1)
\* variant: units below level 1 are taken as roots
OrgUnitsByLevelFloored(units, level) ==
  LET RECURSIVE Build(_)
      Build(i) == IF i > Len(units) THEN <<>>
                  ELSE IF units[i].level = level \/ (level = 1 /\ units[i].level < 1)
                       THEN <<i>> \o Build(i + 1)
                  ELSE Build(i + 1)
  IN Build(1)
\* orgUnitStructures.reduce(...)[level] || []: the units of one level, by
\* their index in the input list, in list order
OrgUnitsByLevel(units, level) ==
  LET RECURSIVE Build(_)
      Build(i) == IF i > Len(units) THEN <<>>
                  ELSE IF units[i].level = level THEN <<i>> \o Build(i + 1)
                  ELSE Build(i + 1)
  IN Build(1)

\* `const mappings = {}` is an object literal: besides its own keys it has
\* the properties every object inherits from Object.prototype
InheritedNames ==
  {"constructor", "__proto__", "hasOwnProperty", "isPrototypeOf",
   "propertyIsEnumerable", "toLocaleString", "toString", "valueOf",
   "__defineGetter__", "__defineSetter__", "__lookupGetter__", "__lookupSetter__"}

\* what reading an inherited property gives, by a number no identifier has:
\* -2 for Object.prototype itself (`__proto__`), -1 for a function
InheritedValue(name) == IF name = "__proto__" THEN -2 ELSE -1

\* mappings[name]: the own key, else the inherited property, else undefined (0)
Lookup(m, name) ==
  IF name \in DOMAIN m THEN m[name]
  ELSE IF name \in InheritedNames THEN InheritedValue(name)
  ELSE 0

\* variant: the identifier is not kept
AssignNothing(m, name, id) == m
\* mappings[name] = id; for the name `__proto__` the assignment goes to the
\* prototype setter, which ignores a value that is no object: no key is added
Assign(m, name, id) ==
  IF name = "__proto__" THEN m
  ELSE [n \in DOMAIN m \cup {name} |-> IF n = name THEN id ELSE m[n]]

\* variant: a unit is never held back for its parent
ParentMissingIgnored(m, ou) == FALSE
\* if (orgUnit.parent) { if (!mappings[orgUnit.parent]) continue; }
ParentMissing(m, ou) == ou.parent # "" /\ Lookup(m, ou.parent) = 0

\* variant: the payload never carries a parent reference
PayloadNoParent(m, ou) == [name |-> ou.name, code |-> ou.code, parent |-> 0]
\* the payload handed to upsert
Payload(m, ou) ==
  [name |-> ou.name, code |-> ou.code,
   parent |-> IF ou.parent # "" THEN Lookup(m, ou.parent) ELSE 0]

\* what a skipped unit adds to responses: the branch logs and continues
SkippedEntries(ou) == <<>>

\* what a settled upsert adds to responses (each entry is tagged here with
\* the unit it was pushed for)
\* variant: a failed upsert is logged and leaves no entry
SettledEntriesSilentFailure(ou, how, id, msg) ==
  CASE how = "uid" -> <<[kind |-> "response", orgUnit |-> ou.name, uid |-> id,
                         error |-> "none"]>>
    [] how = "noUid" -> <<[kind |-> "response", orgUnit |-> ou.name, uid |-> 0,
                           error |-> "none"]>>
    [] how = "nullBody" ->
         <<[kind |-> "null", orgUnit |-> ou.name, uid |-> 0, error |-> "none"],
           [kind |-> "error", orgUnit |-> ou.name, uid |-> 0, error |-> "TypeError"]>>
    [] how = "failed" -> <<>>
\* try { await upsertOp(state); responses.push(copy of state.data);
\*       if (responseData.response?.uid) ... }
\* catch (error) { responses.push({ error: error.message, orgUnit: orgUnit.name }) }
\* A null body is pushed and then makes `responseData.response` throw a
\* TypeError inside the try block, which the catch records as well.
SettledEntries(ou, how, id, msg) ==
  CASE how = "uid" -> <<[kind |-> "response", orgUnit |-> ou.name, uid |-> id,
                         error |-> "none"]>>
    [] how = "noUid" -> <<[kind |-> "response", orgUnit |-> ou.name, uid |-> 0,
                           error |-> "none"]>>
    [] how = "nullBody" ->
         <<[kind |-> "null", orgUnit |-> ou.name, uid |-> 0, error |-> "none"],
           [kind |-> "error", orgUnit |-> ou.name, uid |-> 0, error |-> "TypeError"]>>
    [] how = "failed" -> <<[kind |-> "error", orgUnit |-> ou.name, uid |-> 0,
                            error |-> msg]>>

\* The loop variables after the unit at (level, pos) has been dealt with:
\* the next unit of the level, or the first unit of the next level that has
\* one; level = maxLevels + 1 when the loops are over.
RECURSIVE Settled(_, _, _, _)
Settled(units, maxLevels, level, pos) ==
  IF level > maxLevels THEN [level |-> maxLevels + 1, pos |-> 1]
  ELSE IF pos <= Len(OrgUnitsByLevel(units, level)) THEN [level |-> level, pos |-> pos]
  ELSE Settled(units, maxLevels, level + 1, 1)

\* the unit the loops are at
CurrentIndex == OrgUnitsByLevel(hier.units, hier.level)[hier.pos]
Current == hier.units[CurrentIndex]

\* upsertOrganisationUnitHierarchy(orgUnitStructures, options)(state) up to
\* the first unit
UpsertHierarchy(units, maxLevels) ==
  /\ hier.pc = "idle"
  /\ hier' = IF maxLevels = 0
             THEN [HierIdle EXCEPT !.pc = "done", !.status = "rejected",
                                   !.units = units, !.maxLevels = maxLevels]
             ELSE LET p == Settled(units, maxLevels, 1, 1)
                  IN [HierIdle EXCEPT !.pc = "loop", !.status = "pending",
                                      !.units = units, !.maxLevels = maxLevels,
                                      !.level = p.level, !.pos = p.pos]
  /\ UNCHANGED <<call, scan, target, ups, xl, ws, cp>>
  /\ UNCHANGED svars
  /\ UNCHANGED cvars

\* the current unit names a parent that has no mapping: log and continue
HierSkip ==
  /\ hier.pc = "loop"
  /\ hier.level <= hier.maxLevels
  /\ ParentMissing(hier.mappings, Current)
  /\ LET p == Settled(hier.units, hier.maxLevels, hier.level, hier.pos + 1)
     IN hier' = [hier EXCEPT
                   !.level = p.level, !.pos = p.pos,
                   !.responses = @ \o SkippedEntries(Current),
                   !.trace = Append(@, [ev |-> "skip", unit |-> CurrentIndex,
                                        level |-> hier.level, id |-> 0,
                                        msg |-> "none", at |-> Len(hier.responses)])]
  /\ UNCHANGED <<call, scan, target, ups, xl, ws, cp>>
  /\ UNCHANGED svars
  /\ UNCHANGED cvars

\* the upsert of the current unit is started
HierRequest ==
  /\ hier.pc = "loop"
  /\ hier.level <= hier.maxLevels
  /\ ~ParentMissing(hier.mappings, Current)
  /\ hier' = [hier EXCEPT
                !.pc = "await",
                !.inflight = @ \cup {CurrentIndex},
                !.awaited = CurrentIndex,
                !.requests = Append(@, [unit |-> CurrentIndex,
                                        payload |-> Payload(hier.mappings, Current),
                                        mappings |-> hier.mappings]),
                !.trace = Append(@, [ev |-> "request", unit |-> CurrentIndex,
                                     level |-> hier.level, id |-> 0,
                                     msg |-> "none", at |-> Len(hier.responses)])]
  /\ UNCHANGED <<call, scan, target, ups, xl, ws, cp>>
  /\ UNCHANGED svars
  /\ UNCHANGED cvars

\* the state of the run after the awaited upsert has settled
AfterSettle(how, id, msg) ==
  LET i == hier.awaited
      ou == hier.units[i]
      p == Settled(hier.units, hier.maxLevels, hier.level, hier.pos + 1)
  IN [hier EXCEPT
        !.pc = "loop",
        !.write = "none", !.writeId = 0,
        !.answer = HierIdle.answer,
        !.inflight = @ \ {i},
        !.level = p.level, !.pos = p.pos,
        !.responses = @ \o SettledEntries(ou, how, id, msg),
        !.mappings = IF how = "uid" THEN Assign(@, ou.name, id) ELSE @,
        !.trace = Append(@, [ev |-> how, unit |-> i,
                             level |-> ou.level, id |-> id,
                             msg |-> msg, at |-> Len(hier.responses)])]

\* the awaited upsert settles; the identifier of a successful upsert is the
\* number of the request that produced it
HierSettle(how, msg) ==
  /\ hier.pc = "await"
  /\ hier' = AfterSettle(how, Len(hier.requests), msg)
  /\ UNCHANGED <<call, scan, target, ups, xl, ws, cp>>
  /\ UNCHANGED svars
  /\ UNCHANGED cvars

\* both loops are over: state.data = { mappings, responses }
HierFinish ==
  /\ hier.pc = "loop"
  /\ hier.level > hier.maxLevels
  /\ hier' = [hier EXCEPT !.pc = "done", !.status = "resolved",
                          !.data = [mappings |-> hier.mappings,
                                    responses |-> hier.responses]]
  /\ UNCHANGED <<call, scan, target, ups, xl, ws, cp>>
  /\ UNCHANGED svars
  /\ UNCHANGED cvars

NextHierarchy ==
  \/ hier.pc = "idle" /\ \E us \in OrgUnitLists, ml \in MaxLevelsInputs :
       UpsertHierarchy(us, ml)
  \/ HierSkip
  \/ HierRequest
  \/ \E o \in UpsertOutcomes \ {"failed"} : HierSettle(o, "none")
  \/ \E e \in UpsertErrors : HierSettle("failed", e)
  \/ HierFinish

SpecHierarchy == Init /\ [][NextHierarchy]_vars

(* ------------------------------------------------------------------ *)
(* Properties of the hierarchy upsert                                   *)
(* ------------------------------------------------------------------ *)
Settlements == {"uid", "noUid", "nullBody", "failed"}

\* positions of the trace at which the handling of a unit begins
Begins == {k \in 1..Len(hier.trace) : hier.trace[k].ev \in {"skip", "request"}}

LevelOf(i) == hier.units[i].level

\* C18: the run is strictly level-ordered: units are taken up by ascending
\* level and, within a level, in input-list order; a unit whose upsert was
\* started is settled before anything else happens, so a level is fully
\* handled before the next begins and at most one upsert is in flight.
C18_LevelOrdered ==
  /\ \A k1, k2 \in Begins :
       k1 < k2 =>
         \/ LevelOf(hier.trace[k1].unit) < LevelOf(hier.trace[k2].unit)
         \/ /\ LevelOf(hier.trace[k1].unit) = LevelOf(hier.trace[k2].unit)
            /\ hier.trace[k1].unit < hier.trace[k2].unit
  /\ \A k \in 1..Len(hier.trace) :
       (hier.trace[k].ev = "request" /\ k < Len(hier.trace))
         => /\ hier.trace[k + 1].ev \in Settlements
            /\ hier.trace[k + 1].unit = hier.trace[k].unit
  /\ \A k \in 1..Len(hier.trace) :
       hier.trace[k].ev \in Settlements
         => /\ k > 1
            /\ hier.trace[k - 1].ev = "request"
            /\ hier.trace[k - 1].unit = hier.trace[k].unit
  /\ Cardinality(hier.inflight) <= 1
  /\ hier.pc = "await" <=> hier.inflight # {}

\* a list given deepest level first: all three units are upserted, the last
\* of the list first, and one upsert in between failed
C18_Witness ==
  /\ hier.pc = "done"
  /\ Len(hier.units) = 3
  /\ LevelOf(1) = 3 /\ LevelOf(2) = 1 /\ LevelOf(3) = 1
  /\ Len(hier.requests) = 3
  /\ hier.requests[1].unit = 2
  /\ hier.requests[3].unit = 1
  /\ \E k \in 1..Len(hier.trace) : hier.trace[k].ev = "noUid"

DistinctNames ==
  \A i, j \in 1..Len(hier.units) : i # j => hier.units[i].name # hier.units[j].name

Skipped(i) == \E k \in 1..Len(hier.trace) :
                hier.trace[k].ev = "skip" /\ hier.trace[k].unit = i
Requested(i) == \E k \in 1..Len(hier.requests) : hier.requests[k].unit = i

ErrorEntriesFor(name) ==
  {k \in 1..Len(hier.responses) :
     hier.responses[k].kind = "error" /\ hier.responses[k].orgUnit = name}

\* C19: a unit whose parent name has no mapping when the unit is reached
\* produces exactly one error entry for that unit in responses and no upsert
\* request.
C19_SkipRecordsError ==
  (hier.pc = "done" /\ hier.status = "resolved" /\ DistinctNames)
    => \A i \in 1..Len(hier.units) :
         Skipped(i) => /\ ~Requested(i)
                       /\ Cardinality(ErrorEntriesFor(hier.units[i].name)) = 1

\* the unit got no identifier: skipped, upsert failed, or no uid in the answer
Unmapped(i) ==
  \E k \in 1..Len(hier.trace) :
    hier.trace[k].unit = i /\ hier.trace[k].ev \in {"skip", "failed", "noUid", "nullBody"}

\* the units unit j reaches through at most n parent names
RECURSIVE Ancestors(_, _)
Ancestors(j, n) ==
  IF n = 0 THEN {}
  ELSE LET ps == {i \in 1..Len(hier.units) : hier.units[i].name = hier.units[j].parent}
       IN ps \cup UNION {Ancestors(i, n - 1) : i \in ps}

\* C20: with distinct names, once a unit is skipped, or its upsert fails or
\* returns no identifier, no upsert request is made for any unit that
\* reaches it through the parent-name chain; the run does not stop: it never
\* rejects after maxLevels was accepted, and when it is done every unit of
\* levels 1..maxLevels has been skipped or requested.
C20_MissingAncestorCascades ==
  DistinctNames =>
    /\ \A j \in 1..Len(hier.units) :
         \A i \in Ancestors(j, Len(hier.units)) :
           Unmapped(i) => ~Requested(j)
    /\ (hier.maxLevels > 0 /\ hier.pc # "idle") => hier.status # "rejected"
    /\ hier.pc = "done" /\ hier.status = "resolved"
         => \A i \in 1..Len(hier.units) :
              LevelOf(i) \in 1..hier.maxLevels => (Skipped(i) \/ Requested(i))

\* root, child and grandchild with distinct names: the root's upsert failed
\* and both descendants were skipped; the run finished
C20_Witness ==
  /\ hier.pc = "done"
  /\ hier.status = "resolved"
  /\ DistinctNames
  /\ Len(hier.units) = 3
  /\ hier.maxLevels = 3
  /\ Len(hier.requests) = 1
  /\ \E i \in 1..3 : /\ \E k \in 1..Len(hier.trace) :
                          hier.trace[k].ev = "failed" /\ hier.trace[k].unit = i
                     /\ \E j1, j2 \in 1..3 :
                          /\ j1 # j2
                          /\ i \in Ancestors(j1, 3) /\ i \in Ancestors(j2, 3)
                          /\ Skipped(j1) /\ Skipped(j2)

NameOf(i) == hier.units[i].name

InRange(i) == LevelOf(i) \in 1..hier.maxLevels

\* C21: one unit's upsert failure never aborts the level or the run: once
\* maxLevels was accepted the call never rejects, every failure is recorded
\* as one error entry carrying the unit's name and the error message, and
\* when the run is done every unit of levels 1..maxLevels, those after a
\* failed unit included, has been skipped or requested.
C21_FailureDoesNotAbort ==
  /\ (hier.pc # "idle" /\ hier.maxLevels > 0) => hier.status # "rejected"
  /\ \A k \in 1..Len(hier.trace) :
       hier.trace[k].ev = "failed"
         => /\ hier.trace[k].at < Len(hier.responses)
            /\ hier.responses[hier.trace[k].at + 1] =
                 [kind |-> "error", orgUnit |-> NameOf(hier.trace[k].unit),
                  uid |-> 0, error |-> hier.trace[k].msg]
  /\ (hier.pc = "done" /\ hier.status = "resolved")
       => \A i \in 1..Len(hier.units) : InRange(i) => (Skipped(i) \/ Requested(i))

\* the first of three level-1 units failed with a conflict and the two
\* after it were upserted; the run finished
C21_Witness ==
  /\ hier.pc = "done"
  /\ hier.status = "resolved"
  /\ Len(hier.units) = 3
  /\ Len(hier.requests) = 3
  /\ Len(hier.trace) = 6
  /\ hier.trace[2].ev = "failed"
  /\ hier.trace[2].msg = "Conflict"
  /\ hier.trace[4].ev = "uid"
  /\ hier.trace[6].ev = "uid"
  /\ hier.responses[1].kind = "error"

\* the first successful upsert of a unit with this name
FirstSuccess(name) ==
  CHOOSE k \in 1..Len(hier.trace) :
    /\ hier.trace[k].ev = "uid" /\ NameOf(hier.trace[k].unit) = name
    /\ \A j \in 1..(k - 1) :
         ~(hier.trace[j].ev = "uid" /\ NameOf(hier.trace[j].unit) = name)

\* C22: a name in mappings is never overwritten: it keeps the identifier of
\* the first successful upsert of a unit with that name, whatever later
\* units with the same name return.
C22_FirstSuccessWins ==
  \A name \in DOMAIN hier.mappings :
    hier.mappings[name] = hier.trace[FirstSuccess(name)].id

SettledAt == {k \in 1..Len(hier.trace) : hier.trace[k].ev \in Settlements}

\* C23: responses holds exactly one entry for every unit whose upsert was
\* attempted and has settled, in the order of the attempts, whatever the
\* upsert returned.
C23_OneEntryPerAttempt ==
  /\ Len(hier.responses) = Cardinality(SettledAt)
  /\ \A k \in SettledAt :
       /\ hier.trace[k].at = Cardinality({j \in SettledAt : j < k})
       /\ hier.trace[k].at < Len(hier.responses)
       /\ hier.responses[hier.trace[k].at + 1].orgUnit = NameOf(hier.trace[k].unit)

\* C24: whenever a unit that names a parent is upserted, the payload's
\* parent reference is mappings[parent name] as it is at that moment, and
\* that value is the identifier returned by an earlier successful upsert of
\* a unit with that name; a unit without a parent carries no reference; the
\* identifier a successful upsert returns is recorded under the unit's name.
C24_ParentReference ==
  /\ \A q \in 1..Len(hier.requests) :
       LET r == hier.requests[q]
           ou == hier.units[r.unit]
       IN IF ou.parent = ""
          THEN r.payload.parent = 0
          ELSE /\ r.payload.parent # 0
               /\ ou.parent \in DOMAIN r.mappings
               /\ r.payload.parent = r.mappings[ou.parent]
               /\ \E k \in 1..Len(hier.trace) :
                    /\ hier.trace[k].ev = "uid"
                    /\ NameOf(hier.trace[k].unit) = ou.parent
                    /\ hier.trace[k].id = r.payload.parent
                    /\ hier.trace[k].id < q
  /\ (hier.trace # <<>> /\ hier.trace[Len(hier.trace)].ev = "uid")
       => LET e == hier.trace[Len(hier.trace)]
          IN /\ NameOf(e.unit) \in DOMAIN hier.mappings
             /\ hier.mappings[NameOf(e.unit)] = e.id

\* root and child: the child's payload carries the root's identifier and
\* both names are mapped
C24_Witness ==
  /\ hier.pc = "done"
  /\ Len(hier.requests) = 2
  /\ hier.units[hier.requests[2].unit].parent = NameOf(hier.requests[1].unit)
  /\ hier.requests[2].payload.parent = 1
  /\ DOMAIN hier.data.mappings = {"a", "b"}
  /\ hier.data.mappings["a"] = 1
  /\ hier.data.mappings["b"] = 2

AllSucceeded == \A k \in SettledAt : hier.trace[k].ev = "uid"

\* names are distinct, every level lies in 1..maxLevels and every named
\* parent is a unit of a lower level
WellFormedInput ==
  /\ DistinctNames
  /\ \A i \in 1..Len(hier.units) :
       /\ InRange(i)
       /\ hier.units[i].parent # ""
            => \E j \in 1..Len(hier.units) :
                 NameOf(j) = hier.units[i].parent /\ LevelOf(j) < LevelOf(i)

\* C28: when every upsert succeeds with an identifier and the input is well
\* formed, the call finishes without throwing and mappings holds exactly one
\* entry per input unit.
C28_FullHierarchyMapped ==
  (hier.pc # "idle" /\ hier.maxLevels > 0 /\ WellFormedInput /\ AllSucceeded)
    => /\ hier.status # "rejected"
       /\ ~(\E i \in 1..Len(hier.units) : Skipped(i))
       /\ hier.pc = "done"
            => /\ hier.status = "resolved"
               /\ Cardinality(DOMAIN hier.data.mappings) = Len(hier.units)
               /\ DOMAIN hier.data.mappings = {NameOf(i) : i \in 1..Len(hier.units)}

\* grandchild, child and root given deepest first: all three are mapped
C28_Witness ==
  /\ hier.pc = "done"
  /\ hier.status = "resolved"
  /\ WellFormedInput
  /\ AllSucceeded
  /\ Len(hier.units) = 3
  /\ LevelOf(1) = 3 /\ LevelOf(2) = 2 /\ LevelOf(3) = 1
  /\ Cardinality(DOMAIN hier.data.mappings) = 3

\* the units the trace, the requests or the responses mention
Touched(i) ==
  \/ \E k \in 1..Len(hier.trace) : hier.trace[k].unit = i
  \/ Requested(i)

\* C35: an upsert request is made only for units whose level lies in
\* 1..maxLevels: a unit of level 0, of a negative level or of a level above
\* maxLevels is never handled, every entry of responses and of mappings
\* stems from a unit in range, and without maxLevels the call fails before
\* any request.
C35_OnlyLevelsInRange ==
  /\ \A i \in 1..Len(hier.units) : ~InRange(i) => ~Touched(i)
  /\ \A j \in 1..Len(hier.responses) :
       \E k \in SettledAt :
         /\ InRange(hier.trace[k].unit)
         /\ hier.trace[k].at < j
         /\ hier.responses[j].orgUnit = NameOf(hier.trace[k].unit)
  /\ \A name \in DOMAIN hier.mappings :
       \E k \in SettledAt :
         /\ hier.trace[k].ev = "uid"
         /\ InRange(hier.trace[k].unit)
         /\ NameOf(hier.trace[k].unit) = name
  /\ (hier.pc # "idle" /\ hier.maxLevels = 0)
       => /\ hier.pc = "done" /\ hier.status = "rejected"
          /\ hier.requests = <<>> /\ hier.trace = <<>>
          /\ hier.responses = <<>>

\* a unit of level 0, a unit above maxLevels and a root: the run is over and
\* only the root was upserted
C35_Witness ==
  /\ hier.pc = "done"
  /\ hier.status = "resolved"
  /\ Len(hier.units) = 3
  /\ \E i \in 1..3 : LevelOf(i) < 1
  /\ \E i \in 1..3 : LevelOf(i) > hier.maxLevels
  /\ Len(hier.requests) = 1
  /\ Len(hier.data.responses) = 1
  /\ DOMAIN hier.data.mappings = {"a"}

\* C36: every parent reference sent belongs to a unit of a strictly lower
\* level than the child.
C36_ParentStrictlyLower ==
  \A q \in 1..Len(hier.requests) :
    LET r == hier.requests[q]
    IN r.payload.parent # 0
         => \E k \in SettledAt :
              /\ hier.trace[k].ev = "uid"
              /\ hier.trace[k].id = r.payload.parent
              /\ LevelOf(hier.trace[k].unit) < LevelOf(r.unit)

(* ------------------------------------------------------------------ *)
(* upsert(resourceType, query, data, options) against the remote system *)
(* ------------------------------------------------------------------ *)
ResourceTypes == {"organisationUnits", "trackedEntities"}

ShouldUseNewTracker(resourceType) ==
  resourceType \in {"enrollments", "relationships", "events", "trackedEntities"}

\* values of the filtered attribute
FilterInputs == {"c1", "c2"}

SeedRecords ==
  {[id |-> 1, key |-> "c1", data |-> "d0"],
   [id |-> 2, key |-> "c1", data |-> "d0"],
   [id |-> 3, key |-> "c2", data |-> "d0"]}

NoDuplicates(recs) == \A r \in recs, q \in recs : r.key = q.key => r = q

\* the remote systems upsert may face; one that refuses duplicates holds none
TargetInputs ==
  {[records |-> rs, unique |-> FALSE, initial |-> rs, foreign |-> 0] :
     rs \in SUBSET SeedRecords}
  \cup
  {[records |-> rs, unique |-> TRUE, initial |-> rs, foreign |-> 0] :
     rs \in {x \in SUBSET SeedRecords : NoDuplicates(x)}}

\* variant: the find never matches
MatchesNothing(recs, key) == {}
\* the records the GET with the filter returns
Matches(recs, key) == {r \in recs : r.key = key}

\* the identifier the remote system gives to a new record
NextId(recs) ==
  IF recs = {} THEN 1
  ELSE 1 + (CHOOSE m \in {r.id : r \in recs} : \A r \in recs : r.id <= m)

Created(recs, key, data) ==
  recs \cup {[id |-> NextId(recs), key |-> key, data |-> data]}

Updated(recs, ids, data) ==
  {IF r.id \in ids THEN [r EXCEPT !.data = data] ELSE r : r \in recs}

\* variant: a single match is written with POST as well
WriteForAlwaysPost(n) == IF n > 1 THEN "none" ELSE "POST"
\* the request that follows a find that returned n records
WriteFor(n) ==
  IF n > 1 THEN "none"
  ELSE IF n <= 0 THEN "POST"
  ELSE "PUT"

\* the id of the first record of the find's result
FirstId(m) == IF m = {} THEN 0 ELSE CHOOSE i \in {r.id : r \in m} : \A r \in m : i <= r.id

\* what the remote system does with DELETE <resource>/<id>
Deleted(recs, id) == {r \in recs : r.id # id}

\* what the remote system does with PUT <resource>/<id>: the record takes the
\* attributes sent, the filtered one among them, unless there is no such
\* record or the remote system refuses a second record of that value
Replaced(t, id, key, data) ==
  IF ~(\E r \in t.records : r.id = id) THEN t.records
  ELSE IF t.unique /\ (\E r \in t.records : r.id # id /\ r.key = key) THEN t.records
  ELSE {IF r.id = id THEN [id |-> id, key |-> key, data |-> data] ELSE r :
          r \in t.records}

\* what the remote system does with a write and what it answers. The data
\* upsert sends carry the value it filtered by (payload.code for a unit).
Served(t, write, id, key, data) ==
  LET m == Matches(t.records, key)
  IN IF write = "POST"
     THEN IF t.unique /\ m # {}
          THEN [target |-> t, status |-> "rejected", err |-> "Conflict", uid |-> 0]
          ELSE [target |-> [t EXCEPT !.records = Created(@, key, data)],
                status |-> "resolved", err |-> "none", uid |-> NextId(t.records)]
     ELSE IF write = "PUT"
     THEN IF ~(\E r \in t.records : r.id = id)
          THEN [target |-> t, status |-> "rejected", err |-> "Not Found", uid |-> 0]
          ELSE IF t.unique /\ (\E r \in t.records : r.id # id /\ r.key = key)
          THEN [target |-> t, status |-> "rejected", err |-> "Conflict", uid |-> 0]
          ELSE [target |-> [t EXCEPT !.records = Replaced(t, id, key, data)],
                status |-> "resolved", err |-> "none", uid |-> id]
     ELSE IF m = {}
     THEN [target |-> [t EXCEPT !.records = Created(@, key, data)],
           status |-> "resolved", err |-> "none", uid |-> NextId(t.records)]
     ELSE [target |-> [t EXCEPT !.records = Updated(@, {r.id : r \in m}, data)],
           status |-> "resolved", err |-> "none", uid |-> FirstId(m)]

\* values update(...) may give to the filtered attribute
UpdateKeys == {"c1", "c9"}

\* destroy(resourceType, id)(state) called by another job: the DELETE is
\* sent and served
Destroy(id) ==
  /\ target.foreign < MaxForeignWrites
  /\ \E r \in target.records : r.id = id
  /\ target' = [target EXCEPT !.records = Deleted(@, id), !.foreign = @ + 1]
  /\ UNCHANGED <<call, scan, hier, ups, xl, ws, cp>>
  /\ UNCHANGED svars
  /\ UNCHANGED cvars

\* update(resourceType, id, data)(state) called by another job: the PUT is
\* sent and served
Update(id, key) ==
  /\ target.foreign < MaxForeignWrites
  /\ \E r \in target.records : r.id = id
  /\ target' = [target EXCEPT !.records = Replaced(target, id, key, "dx"),
                              !.foreign = @ + 1]
  /\ UNCHANGED <<call, scan, hier, ups, xl, ws, cp>>
  /\ UNCHANGED svars
  /\ UNCHANGED cvars

\* upsert(...)(state) up to its first await
UpsertCall(c, resourceType, key) ==
  /\ ups[c].pc = "idle"
  /\ LET tr == ShouldUseNewTracker(resourceType)
     IN ups' = [ups EXCEPT ![c] =
                  [UpsertIdle EXCEPT
                     !.pc = IF tr THEN "write" ELSE "find",
                     !.tracker = tr,
                     !.key = key,
                     !.write = IF tr THEN "TRACKER" ELSE "none",
                     !.writes = IF tr THEN 1 ELSE 0,
                     !.log = IF tr THEN <<"TRACKER">> ELSE <<"GET">>]]
  /\ UNCHANGED <<call, scan, hier, target, xl, ws, cp>>
  /\ UNCHANGED svars
  /\ UNCHANGED cvars

\* the GET resolves: conflict, or the POST or PUT is sent
UpsertFound(c) ==
  /\ ups[c].pc = "find"
  /\ LET m == Matches(target.records, ups[c].key)
         n == Cardinality(m)
         w == WriteFor(n)
     IN ups' = [ups EXCEPT ![c] =
                  [@ EXCEPT
                     !.found = n,
                     !.foundId = FirstId(m),
                     !.write = w,
                     !.writeId = IF w = "PUT" THEN FirstId(m) ELSE 0,
                     !.writes = IF w = "none" THEN 0 ELSE 1,
                     !.log = IF w = "none" THEN @ ELSE Append(@, w),
                     !.pc = IF w = "none" THEN "done" ELSE "write",
                     !.status = IF w = "none" THEN "rejected" ELSE "none",
                     !.err = IF w = "none" THEN "Conflict" ELSE "none"]]
  /\ UNCHANGED <<call, scan, hier, target, xl, ws, cp>>
  /\ UNCHANGED svars
  /\ UNCHANGED cvars

\* the GET rejects
UpsertFindFails(c, e) ==
  /\ ups[c].pc = "find"
  /\ ups' = [ups EXCEPT ![c] = [@ EXCEPT !.pc = "done", !.status = "rejected",
                                         !.err = e]]
  /\ UNCHANGED <<call, scan, hier, target, xl, ws, cp>>
  /\ UNCHANGED svars
  /\ UNCHANGED cvars

\* the write is served and handleResponse runs
UpsertWritten(c) ==
  /\ ups[c].pc = "write"
  /\ LET r == Served(target, ups[c].write, ups[c].writeId, ups[c].key, "d1")
     IN /\ target' = r.target
        /\ ups' = [ups EXCEPT ![c] = [@ EXCEPT !.pc = "done", !.status = r.status,
                                              !.err = r.err, !.uid = r.uid]]
  /\ UNCHANGED <<call, scan, hier, xl, ws, cp>>
  /\ UNCHANGED svars
  /\ UNCHANGED cvars

\* the write rejects before it reaches the remote system
UpsertWriteFails(c, e) ==
  /\ ups[c].pc = "write"
  /\ ups' = [ups EXCEPT ![c] = [@ EXCEPT !.pc = "done", !.status = "rejected",
                                         !.err = e]]
  /\ UNCHANGED <<call, scan, hier, target, xl, ws, cp>>
  /\ UNCHANGED svars
  /\ UNCHANGED cvars

\* the values the upsert calls that have not settled filter by: another
\* job's write is followed when it touches a record of such a value
UpsertKeys == {ups[c].key : c \in {d \in Callers : ups[d].pc \notin {"idle", "done"}}}

InitUpsert == \E t \in TargetInputs : InitLocal(<<>>, 1) /\ target = t

NextUpsert ==
  \/ \E c \in Callers, rt \in ResourceTypes, k \in FilterInputs : UpsertCall(c, rt, k)
  \/ \E c \in Callers : UpsertFound(c)
  \/ \E c \in Callers : UpsertFindFails(c, "ECONNRESET")
  \/ \E c \in Callers : UpsertWritten(c)
  \/ \E c \in Callers : UpsertWriteFails(c, "ECONNRESET")
  \/ \E r \in target.records : r.key \in UpsertKeys /\ Destroy(r.id)
  \/ \E r \in target.records, k \in UpdateKeys :
       {r.key, k} \cap UpsertKeys # {} /\ Update(r.id, k)

SpecUpsert == InitUpsert /\ [][NextUpsert]_vars

(* ------------------------------------------------------------------ *)
(* Properties of upsert                                                 *)
(* ------------------------------------------------------------------ *)
\* what the claim says of one call: the find comes first, and its result
\* decides the single write
FindDecidesWrite(u) ==
  /\ u.pc # "idle" => (u.log # <<>> /\ Head(u.log) = "GET")
  /\ u.writes <= 1
  /\ u.pc = "done" /\ u.found = -1 => u.writes = 0 /\ u.status = "rejected"
  /\ u.found = 0
       => /\ u.writes = 1 /\ u.write = "POST"
          /\ u.log = <<"GET", "POST">>
  /\ u.found = 1
       => /\ u.writes = 1 /\ u.write = "PUT"
          /\ u.log = <<"GET", "PUT">>
          /\ u.writeId = u.foundId
          /\ (u.pc = "done" /\ u.status = "resolved") => u.uid = u.foundId
  /\ u.found > 1
       => /\ u.writes = 0 /\ u.write = "none"
          /\ u.log = <<"GET">>
          /\ u.pc = "done" /\ u.status = "rejected" /\ u.err = "Conflict"

\* C26 as stated: upsert first finds records by the filter; a find that
\* returned no record is followed by exactly one write, a create; a find that
\* returned one record by exactly one write, an update of that record's id; a
\* find that returned more than one record by no write and a conflict error.
C26_FindThenOneWrite == \A c \in Callers : FindDecidesWrite(ups[c])

\* C26, amended: that holds for the resource types that do not use the new
\* tracker; for enrollments, relationships, events and trackedEntities upsert
\* makes no find and sends one create_and_update request.
C26_FindThenOneWriteUnlessTracker ==
  \A c \in Callers :
    LET u == ups[c]
    IN /\ ~u.tracker => FindDecidesWrite(u)
       /\ u.tracker => /\ u.log = <<"TRACKER">>
                       /\ u.writes = 1 /\ u.write = "TRACKER"
                       /\ u.found = -1

\* the first call found nothing and created the record, the second found
\* that record and updated it, and a third record of the key never appeared
C26_Witness ==
  /\ ups[1].pc = "done" /\ ups[1].status = "resolved"
  /\ ups[1].found = 0 /\ ups[1].write = "POST"
  /\ ups[2].pc = "done" /\ ups[2].status = "resolved"
  /\ ups[2].found = 1 /\ ups[2].write = "PUT"
  /\ ups[2].writeId = ups[1].uid
  /\ ups[2].key = ups[1].key
  /\ Cardinality(Matches(target.records, ups[1].key)) = 1

\* C27: upsert atomically updates a record if it exists or otherwise creates
\* it: when all calls used the same filter value, no record matched it at
\* the start, every call has finished and at least one succeeded, exactly
\* one record matches the filter.
C27_AtomicUpsert ==
  LET k == ups[1].key
  IN (/\ \A c \in Callers : ups[c].pc = "done" /\ ups[c].key = k
      /\ \E c \in Callers : ups[c].status = "resolved"
      /\ Matches(target.initial, k) = {})
       => Cardinality(Matches(target.records, k)) = 1

(* ------------------------------------------------------------------ *)
(* Two hierarchy runs against the remote system                         *)
(* ------------------------------------------------------------------ *)
\* The awaited upsert of the current unit against the remote system. upsert
\* is an async function: it gives up control at `await request(GET)` and at
\* `await request(POST | PUT)`, and the hierarchy loop at `await upsertOp`,
\* so the remote system may serve somebody else between the steps.

\* the GET of the awaited upsert is answered: conflict, or the write is sent
HierFound ==
  /\ hier.pc = "await"
  /\ LET ou == hier.units[hier.awaited]
         m == Matches(target.records, ou.code)
         w == WriteFor(Cardinality(m))
     IN hier' = IF w = "none"
                THEN AfterSettle("failed", 0, "Conflict")
                ELSE [hier EXCEPT !.pc = "write", !.write = w,
                                  !.writeId = IF w = "PUT" THEN FirstId(m) ELSE 0]
  /\ UNCHANGED <<call, scan, target, ups, xl, ws, cp>>
  /\ UNCHANGED svars
  /\ UNCHANGED cvars

\* the remote system serves the POST or PUT of the awaited upsert
HierWritten ==
  /\ hier.pc = "write"
  /\ LET ou == hier.units[hier.awaited]
         r == Served(target, hier.write, hier.writeId, ou.code, ou.name)
     IN /\ target' = r.target
        /\ hier' = [hier EXCEPT !.pc = "answered",
                                !.answer = [status |-> r.status, err |-> r.err,
                                            uid |-> r.uid]]
  /\ UNCHANGED <<call, scan, ups, xl, ws, cp>>
  /\ UNCHANGED svars
  /\ UNCHANGED cvars

\* the answer reaches the loop: handleResponse, then the try or the catch
\* block of the loop body
HierAnswered ==
  /\ hier.pc = "answered"
  /\ hier' = IF hier.answer.status = "resolved"
             THEN AfterSettle("uid", hier.answer.uid, "none")
             ELSE AfterSettle("failed", 0, hier.answer.err)
  /\ UNCHANGED <<call, scan, target, ups, xl, ws, cp>>
  /\ UNCHANGED svars
  /\ UNCHANGED cvars

\* somebody else creates a record with the code of one of the run's units
ForeignCreate(key) ==
  /\ hier.pc \notin {"idle", "done"}
  /\ target.foreign < MaxForeignWrites
  /\ key \in {hier.units[i].code : i \in 1..Len(hier.units)}
  /\ Matches(target.records, key) = {}
  /\ target' = [target EXCEPT !.records = Created(@, key, "dx"),
                              !.foreign = @ + 1]
  /\ UNCHANGED <<call, scan, hier, ups, xl, ws, cp>>
  /\ UNCHANGED svars
  /\ UNCHANGED cvars

\* the operation is called a second time with the same arguments
UpsertHierarchyAgain ==
  /\ hier.pc = "done"
  /\ hier.run = 1
  /\ hier' = IF hier.maxLevels = 0
             THEN [HierIdle EXCEPT !.pc = "done", !.status = "rejected",
                                   !.units = hier.units, !.maxLevels = 0,
                                   !.run = 2, !.first = hier.data.mappings]
             ELSE LET p == Settled(hier.units, hier.maxLevels, 1, 1)
                  IN [HierIdle EXCEPT !.pc = "loop", !.status = "pending",
                                      !.units = hier.units,
                                      !.maxLevels = hier.maxLevels,
                                      !.level = p.level, !.pos = p.pos,
                                      !.run = 2, !.first = hier.data.mappings]
  /\ UNCHANGED <<call, scan, target, ups, xl, ws, cp>>
  /\ UNCHANGED svars
  /\ UNCHANGED cvars

\* the codes somebody else may write
ForeignKeys == {"c1", "c2"}

\* remote systems that keep one record per code
\* the lists run twice: a chain of three levels and the unit whose name the
\* mappings object does not store
IdempotentLists ==
  {us \in OrgUnitLists :
     \A i \in 1..Len(us) : us[i].code \in {"c1", "c2", "c3", "c7"}}

\* a run of the operation is suspended at a request or at its answer
HierPending == hier.pc \in {"await", "write", "answered"}

\* the codes the run filters by: another job's write is followed when it
\* touches a record of such a code
HierKeys == {hier.units[i].code : i \in 1..Len(hier.units)}

InitIdempotent ==
  \E t \in TargetInputs : t.unique /\ InitLocal(<<>>, 1) /\ target = t

NextIdempotent ==
  \/ hier.pc = "idle" /\ \E us \in IdempotentLists, ml \in MaxLevelsInputs :
       UpsertHierarchy(us, ml)
  \/ HierSkip
  \/ HierRequest
  \/ HierFound
  \/ HierWritten
  \/ HierAnswered
  \/ \E k \in ForeignKeys : ForeignCreate(k)
  \/ HierPending /\ \E r \in target.records : r.key \in HierKeys /\ Destroy(r.id)
  \/ HierPending /\ \E r \in target.records, k \in UpdateKeys :
       {r.key, k} \cap HierKeys # {} /\ Update(r.id, k)
  \/ HierFinish
  \/ UpsertHierarchyAgain

SpecIdempotent == InitIdempotent /\ [][NextIdempotent]_vars

\* C25: a second run with the same input against a remote system that keeps
\* one record per code ends with the mappings of the first run and leaves no
\* two records with the same code; the second run starts with empty mappings
\* and responses. The two runs are compared when nobody else wrote to the
\* remote system meanwhile.
C25_Idempotent ==
  /\ NoDuplicates(target.records)
  /\ (hier.run = 2 /\ hier.trace = <<>> /\ hier.pc # "done")
       => hier.mappings = NoMappings /\ hier.responses = <<>>
  /\ (hier.run = 2 /\ hier.pc = "done" /\ target.foreign = 0)
       => /\ hier.data.mappings = hier.first
          /\ Len(hier.data.responses) = Cardinality(SettledAt)

\* root and child run twice: the first run created both records, the second
\* updated them and mapped the same identifiers
C25_Witness ==
  /\ target.foreign = 0
  /\ hier.run = 2
  /\ hier.pc = "done"
  /\ hier.status = "resolved"
  /\ target.initial = {}
  /\ Cardinality(target.records) = 2
  /\ DOMAIN hier.first = {"a", "b"}
  /\ hier.data.mappings = hier.first
  /\ Len(hier.data.responses) = 2

(* ------------------------------------------------------------------ *)
(* getExcelMetadata followed by getExcelChunk on the same file           *)
(* ------------------------------------------------------------------ *)
\* A job that scans a file once and, holding the table the scan returned,
\* fetches the chunks 0, 1, 2, ... of the same file with the same chunk size.
TableFiles ==
  { [k \in 1..n |-> ScanRow(k, kd)] : kd \in RowKinds, n \in 0..MaxRows }

InitTable == \E f \in TableFiles, cs \in 1..MaxChunkSize : InitWith(f, cs)

NextTable ==
  \/ chunk.phase = "idle" /\ ProcessExcelMetadata
  \/ \E w \in WriteOutcomes, u \in BOOLEAN : chunk.phase = "idle" /\ ScanImported(w, u)
  \/ chunk.phase = "idle" /\ ScanImportFails
  \/ chunk.phase = "idle" /\ ScanStreamOpened
  \/ chunk.phase = "idle" /\ ScanStreamOpenFails
  \/ chunk.phase = "idle" /\ ScanOnData
  \/ chunk.phase = "idle" /\ ScanOnEnd
  \/ chunk.phase = "idle" /\ ScanOnError
  \/ chunk.phase = "idle" /\ ScanOnClose
  \/ scan.status = "resolved" /\ ProcessExcelChunk
  \/ \E w \in WriteOutcomes : ChunkImported(w)
  \/ ChunkImportFails
  \/ StreamOpened
  \/ \E u \in BOOLEAN : StreamOpenFails(u)
  \/ \E u \in BOOLEAN : OnData(u)
  \/ \E u \in BOOLEAN : OnEnd(u)
  \/ \E u \in BOOLEAN : OnError(u)
  \/ \E u \in BOOLEAN : OnClose(u)
  \/ JobTake

SpecTable == InitTable /\ [][NextTable]_vars

RECURSIVE SumRowCounts(_)
SumRowCounts(entries) ==
  IF entries = <<>> THEN 0
  ELSE Head(entries).rowCount + SumRowCounts(Tail(entries))

\* C33: the chunk table of a scan agrees with the chunk calls on the same
\* file and chunk size: the entries cover the rows 0..totalRows-1 one after
\* the other without gap or overlap, their rowCount values add up to
\* totalRows, the call for chunk i < totalChunks returns exactly the rows
\* startRow..endRow of entry i (rowCount of them), and a call for
\* i >= totalChunks returns no rows.
C33_TableAgreesWithChunks ==
  (scan.status = "resolved" /\ scan.settledBy = "end") =>
    LET T == scan.result
    IN /\ T.totalRows = Len(file)
       /\ Len(T.chunks) = T.totalChunks
       /\ \A i \in 1..T.totalChunks :
            /\ T.chunks[i].chunkIndex = i - 1
            /\ T.chunks[i].startRow =
                 (IF i = 1 THEN 0 ELSE T.chunks[i - 1].endRow + 1)
            /\ T.chunks[i].startRow <= T.chunks[i].endRow
            /\ T.chunks[i].rowCount =
                 T.chunks[i].endRow - T.chunks[i].startRow + 1
       /\ T.totalChunks = 0 => T.totalRows = 0
       /\ T.totalChunks > 0 => T.chunks[T.totalChunks].endRow = T.totalRows - 1
       /\ SumRowCounts(T.chunks) = T.totalRows
       /\ chunk.settledBy \in {"data", "end"} =>
            /\ chunk.status = "resolved"
            /\ chunk.actualRows = Len(chunk.rowsAtSettle)
            /\ IF chunk.chunkIndex < T.totalChunks
               THEN LET e == T.chunks[chunk.chunkIndex + 1]
                    IN /\ Len(chunk.rowsAtSettle) = e.rowCount
                       /\ chunk.rowsAtSettle =
                            SubSeq(FileRows, e.startRow + 1, e.endRow + 1)
               ELSE chunk.rowsAtSettle = <<>>

\* the scan listed two chunks, the last one partly filled, and the call for
\* that last chunk has returned
C33_Witness ==
  /\ scan.status = "resolved"
  /\ scan.settledBy = "end"
  /\ scan.result.totalChunks = 2
  /\ scan.result.chunks[2].rowCount < scan.chunkSize
  /\ chunk.chunkIndex = 1
  /\ chunk.settledBy = "end"
  /\ Len(chunk.rowsAtSettle) = scan.result.chunks[2].rowCount
  /\ job.chunkSize = scan.chunkSize

(* ------------------------------------------------------------------ *)
(* Properties of processExcelChunk under every ordering of the events    *)
(* ------------------------------------------------------------------ *)
\* one of the deciding events has happened on the stream of the running call
Decided ==
  \/ Len(chunk.chunkData) >= chunk.chunkSize
  \/ stream.ended
  \/ stream.errored
  \/ stream.closed

ChunkOutcome == <<chunk.status, chunk.settledBy, chunk.actualRows, chunk.rowsAtSettle,
                  chunk.chunkData, temp.unlinkCalls, temp.exists>>

\* C31: whatever the order of the data, end, error and close events, a call
\* whose stream was opened settles once and unlinks its temporary file once:
\* as soon as the window is filled or end, error or close has been emitted
\* the call is settled, by that event, and no later event changes the
\* outcome, the rows or the file.
C31_SettlesOnce ==
  /\ [](chunk.phase = "streaming"
          => /\ temp.unlinkCalls <= 1
             /\ Decided <=> chunk.status \in {"resolved", "rejected"}
             /\ Decided <=> temp.unlinkCalls = 1
             /\ Decided <=> chunk.finished
             /\ chunk.settledBy = "data" => Len(chunk.rowsAtSettle) = chunk.chunkSize
             /\ chunk.settledBy = "end" => stream.ended
             /\ chunk.settledBy = "error" => stream.errored
             /\ chunk.settledBy = "close" => stream.closed)
  /\ [][(chunk.phase = "streaming" /\ chunk'.phase = "streaming"
           /\ chunk.status \in {"resolved", "rejected"} /\ ~chunk.taken)
          => /\ ChunkOutcome' = ChunkOutcome
             /\ chunk'.taken \/ stream' # stream]_vars

\* the window was filled and the stream destroyed; a row, an error and the
\* close arrived afterwards
C31_Witness ==
  /\ chunk.phase = "streaming"
  /\ chunk.settledBy = "data"
  /\ chunk.status = "resolved"
  /\ stream.delivered > chunk.processedAtSettle
  /\ stream.errored
  /\ stream.closed
  /\ temp.unlinkCalls = 1

\* C34: a resolved chunk with fewer than chunkSize rows means that the
\* stream signalled end after every row of the file had been examined.
C34_ShortChunkMeansEnd ==
  (chunk.status = "resolved" /\ Len(chunk.rowsAtSettle) < chunk.chunkSize)
    => /\ chunk.settledBy = "end"
       /\ chunk.processedAtSettle = Len(file)

(* ------------------------------------------------------------------ *)
(* extractAll (getXLSX) as a process, as the specification describes it *)
(* ------------------------------------------------------------------ *)
\* what the streaming parser may hand back: a row stream, a promise of one,
\* a promise of something else, or an object without `on`
ParserValues == {"stream", "awaitableStream", "awaitableObject", "object"}

HasOn(v) == v = "stream"
Awaitable(v) == v \in {"awaitableStream", "awaitableObject"}
AwaitedValue(v) == IF v = "awaitableStream" THEN "stream" ELSE "object"

\* 0 stands for an absent maxRows
MaxRowsInputs == {0, 2}

\* a value that is no stream: the call rejects with an error whose message
\* holds 'Invalid stream object returned from getXlsxStream' and the type of
\* the value, as the tests of getXLSX expect
XlInvalidStream(x) ==
  [x EXCEPT !.pc = "done", !.status = "rejected", !.err = "InvalidStream",
            !.settledBy = "invalid"]

\* the events of the stream are subscribed and the timer is started
XlSubscribed(x) == [x EXCEPT !.pc = "streaming", !.timer = "armed"]

\* the parser's value is validated; one fallback for an awaitable value
XlValidated(x, v) ==
  IF HasOn(v) THEN XlSubscribed(x)
  ELSE IF Awaitable(v) THEN [x EXCEPT !.pc = "awaiting"]
  ELSE XlInvalidStream(x)

\* extractAll(path, {chunkSize, maxRows}) after the materialization step, up
\* to the validation of the parser's value
GetXLSX(cs, mr, v) ==
  /\ xl.pc = "idle"
  /\ xl' = XlValidated([XlIdle EXCEPT !.chunkSize = cs, !.maxRows = mr,
                                      !.parser = v], v)
  /\ UNCHANGED <<call, scan, hier, target, ups, ws, cp>>
  /\ UNCHANGED svars
  /\ UNCHANGED cvars

\* the awaited value arrives and is validated again
XlAwaited ==
  /\ xl.pc = "awaiting"
  /\ xl' = IF HasOn(AwaitedValue(xl.parser)) THEN XlSubscribed(xl)
           ELSE XlInvalidStream(xl)
  /\ UNCHANGED <<call, scan, hier, target, ups, ws, cp>>
  /\ UNCHANGED svars
  /\ UNCHANGED cvars

\* a row arrives: counted, and retained unless maxRows rows are held
XlOnData ==
  /\ xl.pc = "streaming"
  /\ xl.pos < Len(file)
  /\ LET keep == xl.maxRows = 0 \/ Len(xl.rows) < xl.maxRows
         rows == IF keep THEN Append(xl.rows, RowValue(file[xl.pos + 1])) ELSE xl.rows
     IN xl' = [xl EXCEPT !.pos = @ + 1, !.seen = @ + 1, !.rows = rows,
                         !.chunksProcessed = NumChunks(Len(rows), xl.chunkSize)]
  /\ UNCHANGED <<call, scan, hier, target, ups, ws, cp>>
  /\ UNCHANGED svars
  /\ UNCHANGED cvars

\* the stream ends: the result holds every retained row
XlOnEnd ==
  /\ xl.pc = "streaming"
  /\ xl.pos = Len(file)
  /\ xl' = [xl EXCEPT !.pc = "done", !.status = "resolved", !.timer = "cleared",
                      !.settledBy = "end"]
  /\ UNCHANGED <<call, scan, hier, target, ups, ws, cp>>
  /\ UNCHANGED svars
  /\ UNCHANGED cvars

\* the stream fails: partial result when rows are held, otherwise the error
XlOnError ==
  /\ xl.pc = "streaming"
  /\ xl' = IF xl.rows # <<>>
           THEN [xl EXCEPT !.pc = "done", !.status = "resolved",
                           !.timer = "cleared", !.errorNote = TRUE,
                           !.settledBy = "error"]
           ELSE [xl EXCEPT !.pc = "done", !.status = "rejected",
                           !.timer = "cleared", !.err = "StreamError",
                           !.settledBy = "error"]
  /\ UNCHANGED <<call, scan, hier, target, ups, ws, cp>>
  /\ UNCHANGED svars
  /\ UNCHANGED cvars

\* variant: the deadline is an error
XlExpiredThrows(x) ==
  [x EXCEPT !.pc = "done", !.status = "rejected", !.err = "Timeout",
            !.timer = "fired", !.destroyed = TRUE, !.settledBy = "timeout"]
\* the deadline passes with the stream unfinished: destroy, partial result
XlExpired(x) ==
  [x EXCEPT !.pc = "done", !.status = "resolved", !.timer = "fired",
            !.destroyed = TRUE, !.truncatedByTimeout = TRUE,
            !.settledBy = "timeout"]

XlTimeout ==
  /\ xl.pc = "streaming"
  /\ xl.timer = "armed"
  /\ xl' = XlExpired(xl)
  /\ UNCHANGED <<call, scan, hier, target, ups, ws, cp>>
  /\ UNCHANGED svars
  /\ UNCHANGED cvars

\* the caller takes the result and may call again
XlTaken ==
  /\ xl.pc = "done"
  /\ xl' = XlIdle
  /\ UNCHANGED <<call, scan, hier, target, ups, ws, cp>>
  /\ UNCHANGED svars
  /\ UNCHANGED cvars

InitExtractAll == \E f \in Files : InitWith(f, 1)

NextExtractAll ==
  \/ \E cs \in 1..MaxChunkSize, mr \in MaxRowsInputs, v \in ParserValues :
       GetXLSX(cs, mr, v)
  \/ XlAwaited
  \/ XlOnData
  \/ XlOnEnd
  \/ XlOnError
  \/ XlTimeout
  \/ XlTaken

SpecExtractAll == InitExtractAll /\ [][NextExtractAll]_vars

\* the timer fires unless the call has settled; nothing obliges the stream
\* to deliver rows or to end
SpecExtractAllTimed == SpecExtractAll /\ WF_vars(XlTimeout)

(* ------------------------------------------------------------------ *)
(* Properties of extractAll                                             *)
(* ------------------------------------------------------------------ *)
NonStream(v) == ~HasOn(v) /\ ~(Awaitable(v) /\ HasOn(AwaitedValue(v)))

\* C29: when the streaming parser yields a value that is no stream and is
\* not awaitable into one, extractAll returns a result with zero rows and
\* metadata.errorNote set, and does not throw.
C29_InvalidStreamDegrades ==
  (xl.pc = "done" /\ NonStream(xl.parser))
    => /\ xl.status = "resolved"
       /\ xl.rows = <<>>
       /\ xl.errorNote
       /\ xl.seen = 0
       /\ ~xl.truncatedByTimeout

\* C30: a call whose stream has not finished by the deadline destroys the
\* stream and returns the rows held so far with truncatedByTimeout set, and
\* never an error; and a call that is streaming always returns.
C30_TimeoutReturnsPartial ==
  /\ [](xl.settledBy = "timeout"
          => /\ xl.pc = "done"
             /\ xl.status = "resolved"
             /\ xl.err = "none"
             /\ xl.destroyed
             /\ xl.truncatedByTimeout
             /\ xl.seen = xl.pos
             /\ xl.rows = SubSeq(FileRows, 1, Len(xl.rows))
             /\ Len(xl.rows) = IF xl.maxRows = 0 THEN xl.pos
                               ELSE Min(xl.pos, xl.maxRows))
  /\ [](xl.truncatedByTimeout => xl.settledBy = "timeout")
  /\ (xl.pc = "streaming") ~> (xl.pc = "done")

\* the deadline passed after two of at least three rows
C30_Witness ==
  /\ xl.settledBy = "timeout"
  /\ xl.status = "resolved"
  /\ xl.truncatedByTimeout
  /\ xl.destroyed
  /\ Len(xl.rows) = 2
  /\ Len(file) >= 3


(* ------------------------------------------------------------------ *)
(* executeWithSftp: sftpConnect, the operations, sftpDisconnect         *)
(* ------------------------------------------------------------------ *)
Runs == 1..MaxRuns

\* state.configuration.sftpConfiguration: absent, without a host, with a host
SftpConfigInputs ==
  { [present |-> FALSE, host |-> <<>>],
    [present |-> TRUE, host |-> <<>>],
    [present |-> TRUE, host |-> <<"h">>] }

\* if (!sftpConfiguration || !sftpConfiguration.host)
NoSftpConfiguration(config) == ~config.present \/ config.host = <<>>

\* How the module was built decides what `require` is inside sftpConnect:
\* in an ES module ("esm") the name is not defined, in a CommonJS build
\* ("cjs") it loads the client library.
Builds == {"esm", "cjs"}

\* ReferenceError: require is not defined
RequireNotDefined == [msg |-> "require is not defined", originalError |-> "none"]

\* sftpConnect(state) up to the call of the transport's connect(): skip when
\* there is no SFTP configuration, reuse a client the module already holds,
\* otherwise `require('ssh2-sftp-client')`, which throws in an ES module
\* before any client exists, then create a client and start connecting it.
SftpConnect(w, r, build) ==
  IF NoSftpConfiguration(w.runs[r].config)
  THEN [w EXCEPT !.runs[r].pc = "ops"]
  ELSE IF w.sftpClient # NoClient
  THEN [w EXCEPT !.runs[r].pc = "ops", !.runs[r].reused = TRUE]
  ELSE IF build = "esm"
  THEN [w EXCEPT !.build = build,
                 !.runs[r].pc = "failing",
                 !.runs[r].err = RequireNotDefined]
  ELSE LET c == w.n + 1
       IN [w EXCEPT !.build = build,
                    !.sftpClient = c, !.n = c,
                    !.clients[c].st = "connecting",
                    !.runs[r].pc = "connecting",
                    !.runs[r].created = c,
                    !.runs[r].opened = @ + 1]

\* `DHIS2 SFTP connection failed: ${error.message}`
ConnectionFailedMessage(e) ==
  CASE e = "ENOTFOUND" -> "DHIS2 SFTP connection failed: ENOTFOUND"
    [] e = "ECONNREFUSED" -> "DHIS2 SFTP connection failed: ECONNREFUSED"
    [] e = "ETIMEDOUT" -> "DHIS2 SFTP connection failed: ETIMEDOUT"
    [] e = "authentication" -> "DHIS2 SFTP connection failed: authentication"

\* `.catch(error => { sftpClient = null; throw new Error(...) })`: the new
\* error carries a message and nothing else
SftpConnectFailed(w, r, e) ==
  [w EXCEPT !.sftpClient = NoClient,
            !.clients[w.runs[r].created].st = "failed",
            !.runs[r].pc = "failing",
            !.runs[r].err = [msg |-> ConnectionFailedMessage(e),
                             originalError |-> "none"]]

\* sftpDisconnect(state): end() on the client the module holds, if any; an
\* error of end() is caught and `finally` clears the variable either way.
SftpDisconnect(w) ==
  IF w.sftpClient = NoClient THEN w
  ELSE [w EXCEPT !.clients[w.sftpClient].ended = TRUE,
                 !.sftpClient = NoClient]

\* the promise of a run settles; the client the module holds then is recorded
WsSettle(w, r, status, thrown) ==
  [w EXCEPT !.runs[r].pc = "done", !.runs[r].status = status,
            !.runs[r].thrown = thrown,
            !.runs[r].heldAtSettle = w.sftpClient]

\* executeWithSftp(...operations)(state) is called: the chain is built
ExecuteWithSftp(r, config, n) ==
  /\ ws.runs[r].pc = "idle"
  /\ ws' = [ws EXCEPT !.runs[r] = [WsRunIdle EXCEPT !.pc = "connect",
                                                   !.config = config,
                                                   !.nOps = n]]
  /\ UNCHANGED <<call, scan, hier, target, ups, xl, cp>>
  /\ UNCHANGED svars
  /\ UNCHANGED cvars

\* the sftpConnect step of the chain; every run of one program sees the
\* same build
WsSftpConnect(r, build) ==
  /\ ws.runs[r].pc = "connect"
  /\ ws.build \in {"unknown", build}
  /\ ws' = SftpConnect(ws, r, build)
  /\ UNCHANGED <<call, scan, hier, target, ups, xl, cp>>
  /\ UNCHANGED svars
  /\ UNCHANGED cvars

\* sftpClient.connect(cleanedConfig) resolved
WsConnectResolved(r) ==
  /\ ws.runs[r].pc = "connecting"
  /\ ws' = [ws EXCEPT !.clients[ws.runs[r].created].st = "ready",
                      !.runs[r].pc = "ops"]
  /\ UNCHANGED <<call, scan, hier, target, ups, xl, cp>>
  /\ UNCHANGED svars
  /\ UNCHANGED cvars

\* sftpClient.connect(cleanedConfig) rejected
WsConnectRejected(r, e) ==
  /\ ws.runs[r].pc = "connecting"
  /\ ws' = SftpConnectFailed(ws, r, e)
  /\ UNCHANGED <<call, scan, hier, target, ups, xl, cp>>
  /\ UNCHANGED svars
  /\ UNCHANGED cvars

\* one of the caller's operations runs and resolves or rejects with e
WsOperation(r, fails, e) ==
  /\ ws.runs[r].pc = "ops"
  /\ ws.runs[r].idx < ws.runs[r].nOps
  /\ ws' = IF fails
           THEN [ws EXCEPT !.runs[r].pc = "failing",
                           !.runs[r].err = [msg |-> e, originalError |-> "none"]]
           ELSE [ws EXCEPT !.runs[r].idx = @ + 1]
  /\ UNCHANGED <<call, scan, hier, target, ups, xl, cp>>
  /\ UNCHANGED svars
  /\ UNCHANGED cvars

\* the last step of the chain: sftpDisconnect. The promise the caller holds
\* is the one .catch() derived from the chain; it resolves in a later job.
WsSftpDisconnect(r) ==
  /\ ws.runs[r].pc = "ops"
  /\ ws.runs[r].idx = ws.runs[r].nOps
  /\ ws' = [SftpDisconnect(ws) EXCEPT !.runs[r].pc = "resolving"]
  /\ UNCHANGED <<call, scan, hier, target, ups, xl, cp>>
  /\ UNCHANGED svars
  /\ UNCHANGED cvars

\* the promise executeWithSftp returned resolves
WsResolved(r) ==
  /\ ws.runs[r].pc = "resolving"
  /\ ws' = WsSettle(ws, r, "resolved", NoError)
  /\ UNCHANGED <<call, scan, hier, target, ups, xl, cp>>
  /\ UNCHANGED svars
  /\ UNCHANGED cvars

\* `.catch(error => { try { sftpDisconnect(state) } catch ...; throw error })`
WsCatch(r) ==
  /\ ws.runs[r].pc = "failing"
  /\ ws' = WsSettle(SftpDisconnect(ws), r, "rejected", ws.runs[r].err)
  /\ UNCHANGED <<call, scan, hier, target, ups, xl, cp>>
  /\ UNCHANGED svars
  /\ UNCHANGED cvars

NextExecuteWithSftp ==
  \/ \E r \in Runs, config \in SftpConfigInputs, n \in 0..MaxOps :
       ExecuteWithSftp(r, config, n)
  \/ \E r \in Runs, build \in Builds : WsSftpConnect(r, build)
  \/ \E r \in Runs : WsConnectResolved(r)
  \/ \E r \in Runs, e \in TransportErrors : WsConnectRejected(r, e)
  \/ \E r \in Runs, fails \in BOOLEAN, e \in FetchErrors : WsOperation(r, fails, e)
  \/ \E r \in Runs : WsSftpDisconnect(r)
  \/ \E r \in Runs : WsResolved(r)
  \/ \E r \in Runs : WsCatch(r)

SpecExecuteWithSftp == Init /\ [][NextExecuteWithSftp]_vars

\* C39: a run of executeWithSftp opens at most one client and reuses a client
\* the module already holds; once the run has settled the module holds no
\* client, the client the run opened has been ended (by the final step on
\* success, in the error path when the connect or an operation failed), and
\* a failed run rethrows the error it failed with.
C39_ExecuteWithSftpSession ==
  \A r \in Runs :
    LET run == ws.runs[r]
    IN /\ run.opened <= 1
       /\ run.reused => run.opened = 0
       /\ run.status # "none" =>
            /\ run.heldAtSettle = NoClient
            /\ run.created # NoClient => ws.clients[run.created].ended
            /\ run.status = "rejected" => run.thrown = run.err

(* ------------------------------------------------------------------ *)
(* processExcelChunkToDHIS2                                             *)
(* ------------------------------------------------------------------ *)
\* What transformFn(chunkData, chunkMetadata) does: throws, returns a falsy
\* value, an object without dataValues, one with an empty dataValues array,
\* or one data value per row.
TransformOutcomes == {"throws", "null", "noDataValues", "emptyDataValues", "dataValues"}

\* HTTP statuses the target answers the POST with
CreateStatuses == {200, 201, 409}

\* handleResponse(result, state): throws for a status of 400 or more,
\* otherwise stores the body in state.data and returns nothing.
HandleResponse(status) ==
  IF status >= 400
  THEN [threw |-> TRUE, msg |-> "DHIS2 API Error", ret |-> "undefined"]
  ELSE [threw |-> FALSE, msg |-> "none", ret |-> "undefined"]

\* create('dataValueSets', data)(state) once the request was answered:
\* `return handleResponse(response, state)`
Create(status) == HandleResponse(status)

\* the result of the `Empty chunk` return
EmptyChunkResult(ci) ==
  [NoChunkResult EXCEPT !.chunkIndex = ci, !.chunkNumber = ci + 1,
                        !.skipped = TRUE, !.reason = "Empty chunk"]

\* the result of the `No data values after transformation` return
NoDataValuesResult(ci, rows) ==
  [NoChunkResult EXCEPT !.chunkIndex = ci, !.chunkNumber = ci + 1,
                        !.rowsProcessed = rows, !.skipped = TRUE,
                        !.reason = "No data values after transformation"]

\* the result built after `await create(...)`; it reads uploadState.data, and
\* reading a property of undefined throws a TypeError into the catch block
UploadedResult(ci, rows, values, uploadState) ==
  IF uploadState = "undefined"
  THEN [threw |-> TRUE, msg |-> "TypeError", result |-> NoChunkResult]
  ELSE [threw |-> FALSE, msg |-> "none",
        result |-> [NoChunkResult EXCEPT !.chunkIndex = ci, !.chunkNumber = ci + 1,
                                         !.rowsProcessed = rows,
                                         !.dataValuesUploaded = values,
                                         !.uploadSuccess = TRUE]]

\* the result of the catch block
FailedResult(ci, msg) ==
  [NoChunkResult EXCEPT !.chunkIndex = ci, !.chunkNumber = ci + 1, !.error = msg]

CpReturn(c, result) ==
  [c EXCEPT !.pc = "done", !.status = "resolved", !.result = result]

\* everything after a successful `await getExcelChunk(...)` up to the call of
\* create: the empty-chunk return, the transform, the no-data-values return
AfterChunkRead(c, rows, t) ==
  IF rows = 0 THEN CpReturn(c, EmptyChunkResult(c.chunkIndex))
  ELSE IF t = "throws"
  THEN CpReturn([c EXCEPT !.rows = rows, !.failure = "transform failed"],
                FailedResult(c.chunkIndex, "transform failed"))
  ELSE IF t \in {"null", "noDataValues", "emptyDataValues"}
  THEN CpReturn([c EXCEPT !.rows = rows], NoDataValuesResult(c.chunkIndex, rows))
  ELSE [c EXCEPT !.pc = "uploading", !.rows = rows, !.dataValues = rows,
                 !.requests = @ + 1]

\* everything after the target answered the POST of create
AfterCreate(c, status) ==
  LET r == Create(status)
      u == UploadedResult(c.chunkIndex, c.rows, c.dataValues, r.ret)
      c1 == [c EXCEPT !.response = IF status >= 400 THEN "error" ELSE "ok"]
  IN IF r.threw
     THEN CpReturn([c1 EXCEPT !.failure = r.msg], FailedResult(c.chunkIndex, r.msg))
     ELSE IF u.threw
     THEN CpReturn(c1, FailedResult(c.chunkIndex, u.msg))
     ELSE CpReturn(c1, u.result)

ProcessExcelChunkToDHIS2(ci, cs) ==
  /\ cp.pc = "idle"
  /\ cp' = [CpIdle EXCEPT !.pc = "reading", !.chunkIndex = ci, !.chunkSize = cs]
  /\ UNCHANGED <<call, scan, hier, target, ups, xl, ws>>
  /\ UNCHANGED svars
  /\ UNCHANGED cvars

\* getExcelChunk resolved with a chunk of `rows` rows
CpChunkRead(rows, t) ==
  /\ cp.pc = "reading"
  /\ rows <= cp.chunkSize
  /\ cp' = AfterChunkRead(cp, rows, t)
  /\ UNCHANGED <<call, scan, hier, target, ups, xl, ws>>
  /\ UNCHANGED svars
  /\ UNCHANGED cvars

\* getExcelChunk rejected (no connection, fetch or parse error)
CpChunkReadFails ==
  /\ cp.pc = "reading"
  /\ cp' = CpReturn([cp EXCEPT !.failure = "Excel chunk reading failed"],
                    FailedResult(cp.chunkIndex, "Excel chunk reading failed"))
  /\ UNCHANGED <<call, scan, hier, target, ups, xl, ws>>
  /\ UNCHANGED svars
  /\ UNCHANGED cvars

\* the target answered the POST
CpCreateAnswered(status) ==
  /\ cp.pc = "uploading"
  /\ cp' = AfterCreate(cp, status)
  /\ UNCHANGED <<call, scan, hier, target, ups, xl, ws>>
  /\ UNCHANGED svars
  /\ UNCHANGED cvars

\* the request itself failed: request() rethrows the error
CpCreateFails(e) ==
  /\ cp.pc = "uploading"
  /\ cp' = CpReturn([cp EXCEPT !.response = "failed", !.failure = e],
                    FailedResult(cp.chunkIndex, e))
  /\ UNCHANGED <<call, scan, hier, target, ups, xl, ws>>
  /\ UNCHANGED svars
  /\ UNCHANGED cvars

NextChunkToDHIS2 ==
  \/ \E ci \in 0..MaxChunkIndex, cs \in 1..MaxChunkSize :
       ProcessExcelChunkToDHIS2(ci, cs)
  \/ \E rows \in 0..MaxChunkSize, t \in TransformOutcomes : CpChunkRead(rows, t)
  \/ CpChunkReadFails
  \/ \E status \in CreateStatuses : CpCreateAnswered(status)
  \/ \E e \in FetchErrors : CpCreateFails(e)

SpecChunkToDHIS2 == Init /\ [][NextChunkToDHIS2]_vars

\* C38: processExcelChunkToDHIS2 never rejects and reports truthfully:
\* uploadSuccess is true exactly when the create request was answered
\* successfully, no create request is made for an empty chunk or a transform
\* without data values, and every failure ends in a result with uploadSuccess
\* false and the message of the error.
C38_OutcomeReportedTruthfully ==
  /\ cp.status # "rejected"
  /\ cp.pc = "done" =>
       /\ cp.status = "resolved"
       /\ cp.result.uploadSuccess <=> cp.response = "ok"
       /\ (cp.rows = 0 \/ cp.dataValues = 0) => cp.requests = 0
       /\ cp.failure # "none" =>
            /\ ~cp.result.uploadSuccess
            /\ cp.result.error = cp.failure
====
